---------------------------- MODULE Spec2Model ----------------------------
(***************************************************************************)
(* A model of the PAK container parser of enfusion_pak                     *)
(* (crates/enfusion_pak/src/parser.rs) and of the callers that drive it:   *)
(* the one-shot PakFile::parse over a whole byte slice and the streaming   *)
(* driver that feeds PakParser::parse a bounded window                     *)
(* (crates/enfusion_pak/src/wrappers/async_reader.rs).                     *)
(*                                                                         *)
(* The source is a sequence of bytes.  The parser operators read it the    *)
(* way the winnow combinators over Partial<&[u8]> do: a read that needs    *)
(* more bytes than the buffer holds answers Incomplete, a four-CC that     *)
(* does not match answers Backtrack, and every panic!/assert!/expect of    *)
(* the Rust code answers Panic.                                            *)
(***************************************************************************)
EXTENDS Integers, Sequences, FiniteSets, TLC

VARIABLES
    wire,        \* the archive as laid out by its writer (chunk descriptors)
    src,         \* the bytes of the source
    feed,        \* how the streaming caller refills: "byte" or "window"
    oneshot,     \* the result of PakFile::parse(src)
    parser,      \* the PakParser the streaming caller holds
    pc,          \* "init", "idle" (caller holds the parser), "parse", "done"
    ret,         \* what the last parse_impl / parse returned
    bufStart,    \* source offset of the first byte of the caller's buffer
    bufLen,      \* number of bytes in the caller's buffer
    cursor,      \* the input cursor, an offset into the buffer
    skipFrom,    \* Skip { from, .. } of the last Skip
    skipCount,   \* Skip { count, .. } of the last Skip
    pak_file,    \* the chunks of the PakFile returned by Done
    entry_cache, \* PakVfs::entry_cache, once PakVfs::new has run
    reply        \* the last file system operation, its path and its answer

VARIABLES
    heap,        \* the FileEntry allocations: id -> [name, meta], children as ids
    owner,       \* the handles that hold a tree: handle -> id of its root, 0 once gone
    original,    \* handle -> the tree it held before any merge
    calls        \* the merges called so far: [op, into, from, res]

VARIABLES
    buffer,      \* CachingAsyncPakFileWrapper::buffer: range -> capacity of its buffer
    reading,     \* the prime_file calls that missed and await read_at
    evicted      \* the last insertion: the cache it found and the keys it removed

VARIABLES
    mutex,       \* the holder of the lock on buffer: None or Some(task)
    call,        \* task -> where its prime_file call stands, its range and the bytes it read
    filled,      \* range -> the bytes the cached buffer holds: [from, len]
    returned     \* the last return of prime_file: [file_range, res, data, fetched]

VARIABLES
    target,      \* the build: "native" (one background thread) or "wasm32" (one call per frame)
    task_queue,  \* the PerformSearch tasks sent and not yet received
    search_stop, \* process_background_requests: whether it runs, and the search its flag is shared with
    searches     \* the searches started: their stop flag, where they stand, what they sent

VARIABLES
    overlay_fs,  \* the directory tree the file system shows
    filter,      \* the filter of build_file_tree: None or Some(query)
    file_tree,   \* the nodes build_file_tree returned
    builder      \* the tree view replaying them: nodes taken, directories open

mergeVars == <<heap, owner, original, calls>>
searchVars == <<target, task_queue, search_stop, searches>>
treeVars == <<overlay_fs, filter, file_tree, builder>>
cacheVars == <<buffer, reading, evicted>>
lockVars == <<mutex, call, filled, returned>>

vars == <<wire, src, feed, oneshot, parser, pc, ret, bufStart, bufLen,
          cursor, skipFrom, skipCount, pak_file, entry_cache, reply, mergeVars, cacheVars, lockVars,
          searchVars, treeVars>>

(***************************************************************************)
(* Bounds of the model.                                                    *)
(***************************************************************************)
\* Largest number of entries below the root in the trees SpecTree decodes.
MaxTreeNodes == 3
\* Largest number of entries below the root in the trees Spec streams.
MaxNodes == 1
\* Number of payload bytes of the non-empty DATA chunk.
DataLen == 2
\* Largest number of bytes cut off the end of a source.
MaxTrunc == 1
\* Capacity of the streaming caller's window, in bytes.
Window == 32
\* Largest number of entries below the root in the trees SpecVfs indexes,
\* and of names in the paths it looks up.
MaxVfsNodes == 2
\* Largest number of entries below the roots of the three trees that are
\* merged, in all.
MaxMergeNodes == 3
\* Largest number of merge_ref calls over them.
MaxCalls == 2
\* Number of files in the source the cache reads from.
MaxFiles == 3
\* Largest number of PerformSearch tasks the UI sends.
MaxSearches == 2
\* Largest number of files with a match a search comes upon.
MaxFound == 2
\* Largest number of entries below the root of the tree the UI shows.
MaxShown == 3

(***************************************************************************)
(* Byte-level helpers.                                                     *)
(***************************************************************************)
Min(a, b) == IF a < b THEN a ELSE b
Max(a, b) == IF a > b THEN a ELSE b

RECURSIVE Concat(_)
Concat(ss) == IF ss = <<>> THEN <<>> ELSE Head(ss) \o Concat(Tail(ss))

\* Writers, used to lay a source out.
EncLe16(n) == <<n % 256, (n \div 256) % 256>>
EncLe32(n) == <<n % 256, (n \div 256) % 256, (n \div 65536) % 256, (n \div 16777216) % 256>>
EncBe32(n) == <<(n \div 16777216) % 256, (n \div 65536) % 256, (n \div 256) % 256, n % 256>>

\* The four-CCs and the PAK type tag.
FORM == <<70, 79, 82, 77>>
HEAD == <<72, 69, 65, 68>>
DATA == <<68, 65, 84, 65>>
FILE == <<70, 73, 76, 69>>
PAC1 == <<80, 65, 67, 49>>

\* Option<T>.
None == <<>>
Some(x) == <<x>>

(***************************************************************************)
(* winnow readers over Partial<&[u8]>.  input is the buffer, pos the       *)
(* 0-based cursor.  Each answers [res, pos, val]; on Incomplete the cursor *)
(* stays where the failing read began.                                     *)
(***************************************************************************)
Avail(input, pos) == Len(input) - pos

Ok(pos, val) == [res |-> "Ok", pos |-> pos, val |-> val]
Fail(kind, pos) == [res |-> kind, pos |-> pos]

u8(input, pos) ==
    IF Avail(input, pos) < 1 THEN Fail("Incomplete", pos)
    ELSE Ok(pos + 1, input[pos + 1])

take(n, input, pos) ==
    IF Avail(input, pos) < n THEN Fail("Incomplete", pos)
    ELSE Ok(pos + n, SubSeq(input, pos + 1, pos + n))

le_u16(input, pos) ==
    IF Avail(input, pos) < 2 THEN Fail("Incomplete", pos)
    ELSE Ok(pos + 2, input[pos + 1] + 256 * input[pos + 2])

le_u32(input, pos) ==
    IF Avail(input, pos) < 4 THEN Fail("Incomplete", pos)
    ELSE Ok(pos + 4, input[pos + 1] + 256 * input[pos + 2]
                     + 65536 * input[pos + 3] + 16777216 * input[pos + 4])

be_u32(input, pos) ==
    IF Avail(input, pos) < 4 THEN Fail("Incomplete", pos)
    ELSE Ok(pos + 4, 16777216 * input[pos + 1] + 65536 * input[pos + 2]
                     + 256 * input[pos + 3] + input[pos + 4])

\* A byte-string literal (b"FORM"): Backtrack as soon as a byte that is there
\* differs, Incomplete when what is there is a proper prefix of the literal.
literal(lit, input, pos) ==
    LET n == Min(Len(lit), Avail(input, pos)) IN
    IF \E i \in 1..n : input[pos + i] # lit[i] THEN Fail("Backtrack", pos)
    ELSE IF n < Len(lit) THEN Fail("Incomplete", pos)
    ELSE Ok(pos + Len(lit), lit)

\* String::from_utf8: whether the bytes are well-formed UTF-8.
IsCont(b) == b \in 128..191
RECURSIVE ValidUtf8(_)
ValidUtf8(bs) ==
    IF bs = <<>> THEN TRUE
    ELSE LET b == bs[1]
             n == Len(bs)
         IN IF b < 128 THEN ValidUtf8(Tail(bs))
            ELSE IF b \in 194..223
                 THEN n >= 2 /\ IsCont(bs[2]) /\ ValidUtf8(SubSeq(bs, 3, n))
            ELSE IF b \in 224..239
                 THEN /\ n >= 3
                      /\ bs[2] \in (IF b = 224 THEN 160..191
                                    ELSE IF b = 237 THEN 128..159 ELSE 128..191)
                      /\ IsCont(bs[3])
                      /\ ValidUtf8(SubSeq(bs, 4, n))
            ELSE IF b \in 240..244
                 THEN /\ n >= 4
                      /\ bs[2] \in (IF b = 240 THEN 144..191
                                    ELSE IF b = 244 THEN 128..143 ELSE 128..191)
                      /\ IsCont(bs[3]) /\ IsCont(bs[4])
                      /\ ValidUtf8(SubSeq(bs, 5, n))
            ELSE FALSE

(***************************************************************************)
(* The archive model: FileEntry, FileEntryMeta, Chunk.                     *)
(***************************************************************************)
FolderMeta(children) == [kind |-> "Folder", children |-> children]

FileMeta(offset, compressed_len, decompressed_len, unk, unk2, compressed, compression_level, timestamp) ==
    [kind |-> "File", offset |-> offset, compressed_len |-> compressed_len,
     decompressed_len |-> decompressed_len, unk |-> unk, unk2 |-> unk2,
     compressed |-> compressed, compression_level |-> compression_level,
     timestamp |-> timestamp]

FileEntry(name, meta) == [name |-> name, meta |-> meta]

\* FileEntry::name
FileEntry_name(entry) == entry.name

\* push_child putting the child first instead of last.
push_child_front(entry, child) ==
    IF entry.meta.kind = "Folder"
    THEN [entry EXCEPT !.meta.children = <<child>> \o @]
    ELSE entry

\* FileEntryMeta::push_child on the meta of entry: a no-op unless a folder.
push_child(entry, child) ==
    IF entry.meta.kind = "Folder"
    THEN [entry EXCEPT !.meta.children = Append(@, child)]
    ELSE entry

ChunkForm(file_size) == [kind |-> "Form", file_size |-> file_size, pak_file_type |-> "PAC1"]
ChunkHead(version, lo, hi) == [kind |-> "Head", version |-> version, unknown_data |-> <<lo, hi>>]
ChunkData(lo, hi) == [kind |-> "Data", data |-> <<lo, hi>>]
ChunkFile(fs) == [kind |-> "File", fs |-> fs]

\* The position of the first Chunk::File of a chunk list (0 when none).
FileChunkAt(chunks) ==
    IF \E i \in 1..Len(chunks) : chunks[i].kind = "File"
    THEN CHOOSE i \in 1..Len(chunks) :
            chunks[i].kind = "File" /\ \A j \in 1..(i - 1) : chunks[j].kind # "File"
    ELSE 0

(***************************************************************************)
(* Entry and chunk decoders (the free functions of parser.rs).             *)
(***************************************************************************)
\* TryFrom<u8> for FileEntryKind: 0 and 1 are kinds, anything else panics.
IsEntryKind(b) == b \in {0, 1}

\* Fixed-size little-endian reads one after the other (le_u32, le_u16, u8):
\* the values read, or Incomplete at the first read the buffer cannot serve.
RECURSIVE le_value(_, _, _)
le_value(n, input, pos) ==
    IF n = 0 THEN 0 ELSE input[pos + 1] + 256 * le_value(n - 1, input, pos + 1)
RECURSIVE le_fields(_, _, _)
le_fields(sizes, input, pos) ==
    IF sizes = <<>> THEN Ok(pos, <<>>)
    ELSE IF Avail(input, pos) < Head(sizes) THEN Fail("Incomplete", pos)
    ELSE LET rest == le_fields(Tail(sizes), input, pos + Head(sizes)) IN
         IF rest.res # "Ok" THEN rest
         ELSE Ok(rest.pos, <<le_value(Head(sizes), input, pos)>> \o rest.val)

\* The body of a File entry: offset, compressed_len, decompressed_len,
\* unknown (u32 each), unk2 (u16), compressed, compression_level (u8 each),
\* timestamp (u32); then the assertions.
parse_file_body(name, input, p) ==
    LET f == le_fields(<<4, 4, 4, 4, 2, 1, 1, 4>>, input, p) IN
    IF f.res # "Ok" THEN f
    ELSE LET v == f.val IN
         IF v[4] # 0 \/ v[5] # 0 \/ v[6] \notin {0, 1} \/ v[7] \notin {0, 6}
         THEN Fail("Panic", f.pos)
         ELSE Ok(f.pos, [entry |-> FileEntry(name, FileMeta(v[1], v[2], v[3], v[4], v[5], v[6], v[7], v[8])),
                         children |-> 0])

\* The body of a Folder entry: children_count.
parse_folder_body(name, input, p) ==
    LET children_count == le_u32(input, p) IN
    IF children_count.res # "Ok" THEN children_count
    ELSE Ok(children_count.pos, [entry |-> FileEntry(name, FolderMeta(<<>>)),
                                 children |-> children_count.val])

\* fn parse_file_entry(input) -> (FileEntry, usize): kind, name_len, name,
\* then the body of the kind.
parse_file_entry(input, pos) ==
    LET entry_kind == u8(input, pos)
        name_len == u8(input, pos + 1)
        name == take(name_len.val, input, pos + 2)
    IN
    IF entry_kind.res # "Ok" THEN entry_kind
    ELSE IF ~IsEntryKind(entry_kind.val) THEN Fail("Panic", entry_kind.pos)
    ELSE IF name_len.res # "Ok" THEN name_len
    ELSE IF name.res # "Ok" THEN name
    ELSE IF ~ValidUtf8(name.val) THEN Fail("Panic", name.pos)
    ELSE IF entry_kind.val = 0 THEN parse_folder_body(name.val, input, name.pos)
    ELSE parse_file_body(name.val, input, name.pos)

\* Parsed::Chunk, Parsed::ChunkAndSkip, Parsed::FileChunkHeader
ParsedChunk(chunk) == [kind |-> "Chunk", skip |-> 0, chunk |-> Some(chunk), chunk_len |-> 0]
ParsedChunkAndSkip(skip, chunk) == [kind |-> "ChunkAndSkip", skip |-> skip, chunk |-> Some(chunk), chunk_len |-> 0]
ParsedFileChunkHeader(chunk_len) == [kind |-> "FileChunkHeader", skip |-> 0, chunk |-> None, chunk_len |-> chunk_len]

parse_form_chunk(input, pos) ==
    LET file_size == be_u32(input, pos)
        pak_type_bytes == take(4, input, pos + 4)
    IN
    IF file_size.res # "Ok" THEN file_size
    ELSE IF pak_type_bytes.res # "Ok" THEN pak_type_bytes
    ELSE IF pak_type_bytes.val # PAC1 THEN Fail("Panic", pak_type_bytes.pos)
    ELSE Ok(pak_type_bytes.pos, ParsedChunk(ChunkForm(file_size.val)))

\* The header length a HEAD chunk must state (0x1c).
HeadLen == 28

parse_head_chunk(input, pos) ==
    LET head_start == pos
        header_len == be_u32(input, pos)
        header_data_start == pos + 4
        version == le_u32(input, header_data_start)
        unknown_data_start == header_data_start + 4
        skip_bytes == unknown_data_start - header_data_start
        unknown_data_offset == unknown_data_start - head_start
    IN
    IF header_len.res # "Ok" THEN header_len
    ELSE IF header_len.val # HeadLen THEN Fail("Panic", header_len.pos)
    ELSE IF version.res # "Ok" THEN version
    ELSE Ok(version.pos,
            ParsedChunkAndSkip(header_len.val - skip_bytes,
                ChunkHead(version.val, unknown_data_offset, unknown_data_offset + skip_bytes)))

parse_data_chunk(input, pos) ==
    LET data_chunk_start == pos
        data_len == be_u32(input, pos)
        data_data_start == pos + 4
        data_data_offset == data_data_start - data_chunk_start
    IN
    IF data_len.res # "Ok" THEN data_len
    ELSE Ok(data_len.pos,
            ParsedChunkAndSkip(data_len.val,
                ChunkData(data_data_offset, data_data_offset + data_len.val)))

parse_file_chunk(input, pos) ==
    LET chunk_len == be_u32(input, pos) IN
    IF chunk_len.res # "Ok" THEN chunk_len
    ELSE Ok(chunk_len.pos, ParsedFileChunkHeader(chunk_len.val))

\* alt((FORM.., HEAD.., DATA.., FILE..)): the first alternative that does not
\* Backtrack decides; when all four Backtrack, so does alt.
parse_chunk(input, pos) ==
    IF literal(FORM, input, pos).res = "Ok" THEN parse_form_chunk(input, pos + 4)
    ELSE IF literal(FORM, input, pos).res # "Backtrack" THEN literal(FORM, input, pos)
    ELSE IF literal(HEAD, input, pos).res = "Ok" THEN parse_head_chunk(input, pos + 4)
    ELSE IF literal(HEAD, input, pos).res # "Backtrack" THEN literal(HEAD, input, pos)
    ELSE IF literal(DATA, input, pos).res = "Ok" THEN parse_data_chunk(input, pos + 4)
    ELSE IF literal(DATA, input, pos).res # "Backtrack" THEN literal(DATA, input, pos)
    ELSE IF literal(FILE, input, pos).res = "Ok" THEN parse_file_chunk(input, pos + 4)
    ELSE literal(FILE, input, pos)

(***************************************************************************)
(* PakParser: the resumable state machine.                                 *)
(***************************************************************************)
ParsingChunk == [kind |-> "ParsingChunk"]
ParsingFileChunk(parsed_root, parents, bytes_processed, chunk_len) == [kind |-> "ParsingFileChunk", parsed_root |-> parsed_root, parents |-> parents, bytes_processed |-> bytes_processed, chunk_len |-> chunk_len]
Done == [kind |-> "Done"]

Directory(is_root, children_remaining, entry) == [is_root |-> is_root, children_remaining |-> children_remaining, entry |-> entry]

\* PakParser::new
PakParser_new == [state |-> ParsingChunk, chunks |-> <<>>, pak_len |-> None, bytes_parsed |-> 0]

Front(s) == SubSeq(s, 1, Len(s) - 1)
Last(s) == s[Len(s)]

\* The end-of-archive check that closes next_state.
end_of_file(self) ==
    IF self.pak_len # None /\ self.bytes_parsed = self.pak_len[1]
    THEN [self EXCEPT !.state = Done]
    ELSE self

\* A count that forgets the bytes consumed.
add_nothing(bytes_parsed, bytes_consumed) == bytes_parsed

\* self.bytes_parsed += bytes_consumed
add_consumed(bytes_parsed, bytes_consumed) == bytes_parsed + bytes_consumed

\* PakParser::next_state.  Answers [ok, parser]; ok is FALSE when the
\* assert_eq!(parents.len(), 1) panics.
next_state(self, bytes_consumed, override_state) ==
    LET counted == [self EXCEPT !.bytes_parsed = add_consumed(@, bytes_consumed)]
        old_state == self.state
    IN
    IF override_state # None
    THEN [ok |-> TRUE, parser |-> end_of_file([counted EXCEPT !.state = override_state[1]])]
    ELSE IF old_state.kind = "ParsingFileChunk"
    THEN IF old_state.bytes_processed + bytes_consumed = old_state.chunk_len
         THEN IF Len(old_state.parents) # 1
              THEN [ok |-> FALSE, parser |-> counted]
              ELSE [ok |-> TRUE,
                    parser |-> end_of_file([counted EXCEPT
                        !.chunks = Append(@, ChunkFile(Last(old_state.parents).entry)),
                        !.state = Done])]
         ELSE [ok |-> TRUE,
               parser |-> end_of_file([counted EXCEPT
                   !.state = ParsingFileChunk(old_state.parsed_root, old_state.parents,
                                 old_state.bytes_processed + bytes_consumed,
                                 old_state.chunk_len)])]
    ELSE [ok |-> TRUE, parser |-> end_of_file(counted)]

\* The loop that closes PakParser::parse_file_entry: while the top frame has
\* no child left to come and is not the root, pop it and attach it to its
\* parent.  Answers [ok, parents]; ok is FALSE when an expect panics.
RECURSIVE coalesce(_)
coalesce(parents) ==
    IF parents = <<>> THEN [ok |-> TRUE, parents |-> parents]
    ELSE LET dir == Last(parents) IN
         IF ~(dir.children_remaining = 0 /\ ~dir.is_root)
         THEN [ok |-> TRUE, parents |-> parents]
         ELSE LET rest == Front(parents) IN
              IF rest = <<>> THEN [ok |-> FALSE, parents |-> rest]
              ELSE LET parent == Last(rest) IN
                   IF parent.children_remaining < 1
                   THEN [ok |-> FALSE, parents |-> rest]
                   ELSE coalesce([rest EXCEPT ![Len(rest)] =
                            Directory(parent.is_root, parent.children_remaining - 1,
                                      push_child(parent.entry, dir.entry))])

\* What PakParser::parse_file_entry does to the frame stack with a decoded
\* entry.  Answers [ok, parsed_root, parents].
attach_entry(parsed_root, parents, entry, children) ==
    IF entry.meta.kind = "Folder"
    THEN LET c == coalesce(Append(parents, Directory(~parsed_root, children, entry)))
         IN [ok |-> c.ok, parsed_root |-> TRUE, parents |-> c.parents]
    ELSE IF parents = <<>> THEN [ok |-> FALSE, parsed_root |-> parsed_root, parents |-> parents]
    ELSE LET parent == Last(parents) IN
         IF parent.children_remaining < 1
         THEN [ok |-> FALSE, parsed_root |-> parsed_root, parents |-> parents]
         ELSE LET c == coalesce([parents EXCEPT ![Len(parents)] =
                          Directory(parent.is_root, parent.children_remaining - 1,
                                    push_child(parent.entry, entry))])
              IN [ok |-> c.ok, parsed_root |-> parsed_root, parents |-> c.parents]

\* PakParser::parse_file_entry (the method), once the entry is decoded (r):
\* the frame stack takes the entry.  Answers [res, pos, parser].
attach_decoded(self, r) ==
    IF r.res # "Ok" THEN [res |-> r.res, pos |-> r.pos, parser |-> self]
    ELSE LET a == attach_entry(self.state.parsed_root, self.state.parents,
                               r.val.entry, r.val.children)
         IN IF ~a.ok THEN [res |-> "Panic", pos |-> r.pos, parser |-> self]
            ELSE [res |-> "Ok", pos |-> r.pos,
                  parser |-> [self EXCEPT !.state.parsed_root = a.parsed_root,
                                          !.state.parents = a.parents]]

PakParser_parse_file_entry(self, input, pos) == attach_decoded(self, parse_file_entry(input, pos))

\* A reset that leaves the cursor where the failing read stopped.
reset_forgotten(start, pos) == pos

\* input.reset(&start) on Incomplete.
reset(start, pos) == start

\* A from that forgets to take the skipped bytes off bytes_parsed.
skip_from_unadjusted(bytes_parsed, skip) == bytes_parsed

\* The from of a Skip: self.bytes_parsed - skip, taken after next_state.
skip_from_of(bytes_parsed, skip) == bytes_parsed - skip

\* The outcome of one parse_impl: ret is "Loop", "Continue", "Skip", "Err"
\* (an Err(ErrMode::Backtrack)) or "Panic".
Outcome(r, self, pos, from, count) == [ret |-> r, parser |-> self, pos |-> pos, from |-> from, count |-> count]

\* The Form branch of parse_impl: record the total length, keep the chunk.
keep_chunk(self, chunk, bytes_consumed) ==
    IF chunk # None /\ chunk[1].kind = "Form"
    THEN [self EXCEPT !.pak_len = Some(chunk[1].file_size + (bytes_consumed - 4)),
                      !.chunks = Append(@, chunk[1])]
    ELSE self

\* parse_impl in the state ParsingChunk, res being what parse_chunk answered:
\* after next_state (stepped), the chunk is kept and a Skip or a Loop
\* answered.
chunk_stepped(stepped, parsed, pos, bytes_consumed) ==
    IF parsed.skip > 0
    THEN Outcome("Skip", keep_chunk(stepped, parsed.chunk, bytes_consumed), pos,
                 skip_from_of(stepped.bytes_parsed, parsed.skip), parsed.skip)
    ELSE Outcome("Loop", keep_chunk(stepped, parsed.chunk, bytes_consumed), pos, 0, 0)

chunk_step(self, start, res) ==
    IF res.res = "Incomplete" THEN Outcome("Continue", self, reset(start, res.pos), 0, 0)
    ELSE IF res.res = "Backtrack" THEN Outcome("Err", self, res.pos, 0, 0)
    ELSE IF res.res = "Panic" THEN Outcome("Panic", self, res.pos, 0, 0)
    ELSE chunk_stepped(
            next_state(self, (res.pos - start) + res.val.skip,
                       IF res.val.kind = "FileChunkHeader"
                       THEN Some(ParsingFileChunk(FALSE, <<>>, 0, res.val.chunk_len))
                       ELSE None).parser,
            res.val, res.pos, res.pos - start)

\* parse_impl in the state ParsingFileChunk, r being what parse_file_entry
\* (the method) answered.
entry_stepped(self, pos, n) ==
    IF ~n.ok THEN Outcome("Panic", self, pos, 0, 0)
    ELSE Outcome("Loop", n.parser, pos, 0, 0)

entry_step(self, start, r) ==
    IF r.res = "Incomplete" THEN Outcome("Continue", self, reset(start, r.pos), 0, 0)
    ELSE IF r.res # "Ok" THEN Outcome("Panic", self, r.pos, 0, 0)
    ELSE entry_stepped(self, r.pos, next_state(r.parser, r.pos - start, None))

\* PakParser::parse_impl
parse_impl(self, input, start) ==
    IF self.state.kind = "ParsingChunk"
    THEN chunk_step(self, start, parse_chunk(input, start))
    ELSE IF self.state.kind = "ParsingFileChunk"
    THEN entry_step(self, start, PakParser_parse_file_entry(self, input, start))
    ELSE Outcome("Panic", self, start, 0, 0)

\* PakParser::complete
complete(self) == self.chunks

\* PakParser::parse: parse_impl until it answers something other than Loop,
\* Done once the state is Done.
RECURSIVE parse(_, _, _)
RECURSIVE parse_loop(_, _)
parse(self, input, pos) ==
    IF self.state.kind = "Done" THEN Outcome("Done", self, pos, 0, 0)
    ELSE parse_loop(parse_impl(self, input, pos), input)
parse_loop(next, input) ==
    IF next.ret = "Loop" THEN parse(next.parser, input, next.pos) ELSE next

\* PakFile::parse: the one-shot parse of a whole slice.  Answers
\* [res, chunks]: res is "Ok" or "Panic" (no Err(ErrMode::Cut) is ever
\* raised, so the Err(PakError) arm is never taken).
RECURSIVE PakFile_parse_from(_, _)
RECURSIVE PakFile_parse_arm(_, _)
PakFile_parse_from(self, curr_data) == PakFile_parse_arm(parse(self, curr_data, 0), curr_data)
PakFile_parse_arm(r, curr_data) ==
    IF r.ret = "Done" THEN [res |-> "Ok", chunks |-> complete(r.parser)]
    ELSE IF r.ret = "Skip"
    THEN IF r.pos + r.count > Len(curr_data)
         THEN [res |-> "Panic", chunks |-> <<>>]
         ELSE PakFile_parse_from(r.parser, SubSeq(curr_data, r.pos + r.count + 1, Len(curr_data)))
    ELSE [res |-> "Panic", chunks |-> <<>>]

PakFile_parse(data) == PakFile_parse_from(PakParser_new, data)

(***************************************************************************)
(* Sources.  A wire is the archive as its writer laid it out: a sequence   *)
(* of chunk descriptors and the number of bytes cut off its end.  The      *)
(* bytes of the source are the encoding of the wire.                       *)
(***************************************************************************)
WFolder(name, children_count) == [kind |-> 0, name |-> name, children_count |-> children_count, offset |-> 0, compressed_len |-> 0, decompressed_len |-> 0, unk |-> 0, unk2 |-> 0, compressed |-> 0, compression_level |-> 0, timestamp |-> 0]
WFileEntry(name, meta) == [kind |-> 1, name |-> name, children_count |-> 0, offset |-> meta.offset, compressed_len |-> meta.compressed_len, decompressed_len |-> meta.decompressed_len, unk |-> meta.unk, unk2 |-> meta.unk2, compressed |-> meta.compressed, compression_level |-> meta.compression_level, timestamp |-> meta.timestamp]

EncodeEntry(e) ==
    <<e.kind, Len(e.name)>> \o e.name \o
    (IF e.kind = 1
     THEN EncLe32(e.offset) \o EncLe32(e.compressed_len) \o EncLe32(e.decompressed_len)
          \o EncLe32(e.unk) \o EncLe16(e.unk2) \o <<e.compressed, e.compression_level>>
          \o EncLe32(e.timestamp)
     ELSE EncLe32(e.children_count))

RECURSIVE EncodeEntries(_)
EncodeEntries(es) == IF es = <<>> THEN <<>> ELSE EncodeEntry(Head(es)) \o EncodeEntries(Tail(es))

WForm(file_size, tag) == [cc |-> "FORM", file_size |-> file_size, tag |-> tag]
WHead(len, version) == [cc |-> "HEAD", len |-> len, version |-> version]
WData(payload) == [cc |-> "DATA", payload |-> payload]
WFile(chunk_len, entries, tree) == [cc |-> "FILE", chunk_len |-> chunk_len, entries |-> entries, tree |-> tree]
WJunk == [cc |-> "JUNK"]

Zeros(n) == [i \in 1..n |-> 0]

EncodeChunk(c) ==
    CASE c.cc = "FORM" -> FORM \o EncBe32(c.file_size) \o c.tag
      [] c.cc = "HEAD" -> HEAD \o EncBe32(c.len) \o EncLe32(c.version) \o Zeros(HeadLen - 4)
      [] c.cc = "DATA" -> DATA \o EncBe32(Len(c.payload)) \o c.payload
      [] c.cc = "FILE" -> FILE \o EncBe32(c.chunk_len) \o EncodeEntries(c.entries)
      [] OTHER -> <<74, 85, 78, 75>> \o EncBe32(0)

RECURSIVE EncodeChunks(_)
EncodeChunks(cs) == IF cs = <<>> THEN <<>> ELSE EncodeChunk(Head(cs)) \o EncodeChunks(Tail(cs))

SourceOf(w) == LET all == EncodeChunks(w.chunks) IN SubSeq(all, 1, Len(all) - w.trunc)

\* The entry stream of a tree: every entry in pre-order, each folder stating
\* the number of its direct children.
RECURSIVE PreOrder(_)
RECURSIVE PreOrderAll(_)
PreOrder(t) ==
    IF t.meta.kind = "Folder"
    THEN <<WFolder(t.name, Len(t.meta.children))>> \o PreOrderAll(t.meta.children)
    ELSE <<WFileEntry(t.name, t.meta)>>
PreOrderAll(ts) == IF ts = <<>> THEN <<>> ELSE PreOrder(Head(ts)) \o PreOrderAll(Tail(ts))

\* Entry names, and the two files the trees hold: one stored, one compressed.
NameA == <<97>>
NameB == <<98>>
Names == {NameA, NameB}
FileLeaf(name) ==
    IF name = NameA THEN FileEntry(name, FileMeta(64, 5, 5, 0, 0, 0, 0, 77))
    ELSE FileEntry(name, FileMeta(69, 13, 2, 0, 0, 1, 6, 99))

\* Every tree with exactly k entries (NodesOf) and every sequence of trees
\* with n entries in all (ForestsOf).
RECURSIVE NodesOf(_)
RECURSIVE ForestsOf(_)
NodesOf(k) ==
    (IF k = 1 THEN {FileLeaf(n) : n \in Names} ELSE {})
    \cup {FileEntry(n, FolderMeta(f)) : n \in Names, f \in ForestsOf(k - 1)}
ForestsOf(n) ==
    IF n = 0 THEN {<<>>}
    ELSE UNION {{<<t>> \o f : t \in NodesOf(k), f \in ForestsOf(n - k)} : k \in 1..n}
TreesUpTo(n) == {FileEntry(<<>>, FolderMeta(f)) : f \in UNION {ForestsOf(k) : k \in 0..n}}

\* A root holding a folder that holds a file.
SampleTree == FileEntry(<<>>, FolderMeta(<<FileEntry(NameA, FolderMeta(<<FileLeaf(NameB)>>))>>))

\* A FILE chunk that holds a tree / a given entry stream, its length exact.
WFileOfTree(t) == WFile(Len(EncodeEntries(PreOrder(t))), PreOrder(t), Some(t))
WFileOfEntries(es) == WFile(Len(EncodeEntries(es)), es, None)

\* A layout names the chunks of an archive; Build lays it out around a tree,
\* every FORM stating the length of all that follows its first eight bytes.
Piece(sym, t) ==
    CASE sym = "FORM" -> WForm(0, PAC1)
      [] sym = "HEAD" -> WHead(HeadLen, 1)
      [] sym = "DATA0" -> WData(<<>>)
      [] sym = "DATA" -> WData([i \in 1..DataLen |-> i])
      [] sym = "FILE" -> WFileOfTree(t)
      [] OTHER -> WJunk

SetFileSize(chunks, file_size) ==
    [i \in 1..Len(chunks) |->
        IF chunks[i].cc = "FORM" THEN [chunks[i] EXCEPT !.file_size = file_size] ELSE chunks[i]]

Sized(chunks) == SetFileSize(chunks, Len(EncodeChunks(chunks)) - 8)

Build(layout, t) == [chunks |-> Sized([i \in 1..Len(layout) |-> Piece(layout[i], t)]), trunc |-> 0]

\* Archives of the grammar FORM HEAD? (DATA | FILE)*.
GrammarLayouts ==
    { <<"FORM">>, <<"FORM", "HEAD">>, <<"FORM", "DATA0">>, <<"FORM", "DATA">>,
      <<"FORM", "HEAD", "DATA">>, <<"FORM", "FILE">>, <<"FORM", "HEAD", "FILE">>,
      <<"FORM", "HEAD", "DATA", "FILE">>, <<"FORM", "DATA0", "FILE">>,
      <<"FORM", "FILE", "DATA">>, <<"FORM", "FILE", "FILE">> }

\* Streams outside the grammar: no FORM first, two FORMs, an unknown four-CC.
OtherLayouts ==
    { <<"FILE">>, <<"HEAD", "FILE">>, <<"DATA", "FILE">>, <<"FORM", "FORM", "FILE">>,
      <<"JUNK">>, <<"FORM", "JUNK">>, <<"FORM", "DATA", "JUNK">> }

\* The offsets at which a decoding step over the chunks ends: after every
\* FORM, HEAD and DATA chunk, after a FILE header and after each entry.
RECURSIVE EntryEnds(_, _)
EntryEnds(es, at) ==
    IF es = <<>> THEN {}
    ELSE LET end == at + Len(EncodeEntry(Head(es))) IN {end} \cup EntryEnds(Tail(es), end)
RECURSIVE StepEnds(_, _)
StepEnds(cs, at) ==
    IF cs = <<>> THEN {}
    ELSE LET c == Head(cs)
             end == at + Len(EncodeChunk(c))
         IN (IF c.cc = "FILE" THEN {at + 8} \cup EntryEnds(c.entries, at + 8) ELSE {end})
            \cup StepEnds(Tail(cs), end)

\* A FORM that states a total at which an earlier decoding step ends.
ShortFormWires ==
    UNION { { [chunks |-> SetFileSize(w.chunks, b - 8), trunc |-> 0] :
                b \in StepEnds(w.chunks, 0) \ {Len(EncodeChunks(w.chunks))} } :
            w \in {Build(l, SampleTree) : l \in GrammarLayouts} }

\* A source that ends before its last chunk does.
TruncatedWires ==
    { [w EXCEPT !.trunc = n] :
        w \in {Build(l, SampleTree) : l \in GrammarLayouts}, n \in 1..MaxTrunc }

\* Entry streams that break the format, each in a FILE chunk of its length.
Root(n) == WFolder(<<>>, n)
BadFile(name, unk, unk2, compressed, compression_level) == WFileEntry(name, FileMeta(64, 5, 5, unk, unk2, compressed, compression_level, 77))
GoodFile(name) == WFileEntry(name, FileLeaf(name).meta)
BrokenEntryStreams ==
    { <<Root(1), [WFolder(NameA, 0) EXCEPT !.kind = 2]>>,   \* invalid entry kind
      <<Root(1), BadFile(NameA, 1, 0, 0, 0)>>,              \* reserved u32 not zero
      <<Root(1), BadFile(NameA, 0, 1, 0, 0)>>,              \* reserved u16 not zero
      <<Root(1), BadFile(NameA, 0, 0, 2, 0)>>,              \* compression flag 2
      <<Root(1), BadFile(NameA, 0, 0, 0, 3)>>,              \* compression level 3
      <<Root(1), BadFile(<<255>>, 0, 0, 0, 0)>>,            \* name is not UTF-8
      <<Root(1), BadFile(<<>>, 0, 0, 0, 0)>>,               \* empty name below the root
      <<Root(0), GoodFile(NameA)>>,                         \* a child the root did not declare
      <<Root(1), GoodFile(NameA), GoodFile(NameB)>>,        \* one child too many
      <<Root(1), WFolder(NameA, 0), WFolder(NameB, 0)>>,    \* one folder too many
      <<Root(1), WFolder(NameA, 1)>>,                       \* a frame left open at the end
      <<Root(2), GoodFile(NameA)>>,                         \* the root left short of a child
      <<Root(2), GoodFile(NameA), GoodFile(NameA)>>,        \* a name twice in a folder
      <<GoodFile(NameA)>> }                                 \* a file before any folder

\* A root that declares no child, a folder under it that declares one, and a
\* file; the FORM states a total that ends with the folder entry.
SurplusShortWire ==
    LET es == <<Root(0), WFolder(NameA, 1), GoodFile(NameB)>>
        total == 12 + 8 + Len(EncodeEntries(SubSeq(es, 1, 2)))
    IN [chunks |-> SetFileSize(<<WForm(0, PAC1), WFileOfEntries(es)>>, total - 8), trunc |-> 0]

BrokenWires ==
    { [chunks |-> Sized(<<WForm(0, PAC1), WFileOfEntries(es)>>), trunc |-> 0] : es \in BrokenEntryStreams }
    \cup { [chunks |-> Sized(<<WForm(0, <<80, 65, 67, 50>>), WFileOfTree(SampleTree)>>), trunc |-> 0],
           [chunks |-> Sized(<<WForm(0, PAC1), WHead(HeadLen - 1, 1), WFileOfTree(SampleTree)>>), trunc |-> 0],
           [chunks |-> Sized(<<WForm(0, PAC1), WFile(0, PreOrder(SampleTree), None)>>), trunc |-> 0],
           [chunks |-> Sized(<<WForm(0, PAC1), WFile(Len(EncodeEntries(PreOrder(SampleTree))) - 1, PreOrder(SampleTree), None)>>), trunc |-> 0] }

\* The sources of Spec and of SpecTree.
Wires ==
    {Build(l, t) : l \in GrammarLayouts \cup OtherLayouts, t \in TreesUpTo(MaxNodes)}
    \cup ShortFormWires \cup TruncatedWires \cup BrokenWires \cup {SurplusShortWire}

TreeWires == {Build(l, t) : l \in {<<"FORM", "FILE">>, <<"FORM", "HEAD", "FILE">>}, t \in TreesUpTo(MaxTreeNodes)}

Feeds == {"byte", "window"}

(***************************************************************************)
(* The zlib streams open_file hands to flate2's ZlibDecoder.  Modelled for *)
(* streams of one final stored block: header 78 01, block header 01,       *)
(* LEN and NLEN (little-endian), the bytes, Adler-32 (big-endian).         *)
(***************************************************************************)
RECURSIVE adler_sums(_, _, _)
adler_sums(bs, a, b) ==
    IF bs = <<>> THEN b * 65536 + a
    ELSE adler_sums(Tail(bs), (a + Head(bs)) % 65521, (b + ((a + Head(bs)) % 65521)) % 65521)
adler32(bs) == adler_sums(bs, 1, 0)

\* The zlib stream that stores content in one block.
deflate_stored(content) ==
    <<120, 1, 1>> \o EncLe16(Len(content)) \o EncLe16(65535 - Len(content))
        \o content \o EncBe32(adler32(content))

\* ZlibDecoder read to its end over input.  Answers [res, val]; "Unmodelled"
\* for a stream this model does not decode (another block type, more than
\* one block, a stream that ends early).
inflate(input) ==
    IF Len(input) < 2 THEN [res |-> "Unmodelled", val |-> <<>>]
    ELSE IF input[1] % 16 # 8 \/ (input[1] * 256 + input[2]) % 31 # 0
    THEN [res |-> "Err", val |-> <<>>]
    ELSE IF Len(input) < 7 \/ input[3] # 1 THEN [res |-> "Unmodelled", val |-> <<>>]
    ELSE IF input[4] + input[6] # 255 \/ input[5] + input[7] # 255
    THEN [res |-> "Err", val |-> <<>>]
    ELSE IF Len(input) < 7 + (input[4] + 256 * input[5]) + 4
    THEN [res |-> "Unmodelled", val |-> <<>>]
    ELSE IF SubSeq(input, 8 + input[4] + 256 * input[5], 11 + input[4] + 256 * input[5])
                # EncBe32(adler32(SubSeq(input, 8, 7 + input[4] + 256 * input[5])))
    THEN [res |-> "Err", val |-> <<>>]
    ELSE [res |-> "Ok", val |-> SubSeq(input, 8, 7 + input[4] + 256 * input[5])]

(***************************************************************************)
(* PakVfs: the entry index and the read-only file system over it.  Paths   *)
(* and names are byte strings.                                             *)
(***************************************************************************)
Slash == <<47>>

\* HashMap<String, RcFileEntry>: new() and insert().
HashMap_new == [k \in {} |-> k]
HashMap_insert(map, key, value) ==
    [k \in DOMAIN map \cup {key} |-> IF k = key THEN value ELSE map[k]]

\* A key built without the case of the root's children.
this_path_plain(path, entry) == path \o Slash \o FileEntry_name(entry)

\* The key PakVfs::new gives an entry popped with path.
this_path(path, entry) ==
    IF path = Slash THEN path \o FileEntry_name(entry)
    ELSE path \o Slash \o FileEntry_name(entry)

\* What the loop of PakVfs::new pushes for the children of a popped entry.
queue_children(path, entry) ==
    IF entry.meta.kind = "Folder"
    THEN [i \in 1..Len(entry.meta.children) |-> [path |-> path, entry |-> entry.meta.children[i]]]
    ELSE <<>>

\* The loop of PakVfs::new: pop the last of the queue, insert it, push its
\* children.
RECURSIVE index_entries(_, _)
index_entries(queue, entry_cache_) ==
    IF queue = <<>> THEN entry_cache_
    ELSE index_entries(
            Front(queue) \o queue_children(this_path(Last(queue).path, Last(queue).entry), Last(queue).entry),
            HashMap_insert(entry_cache_, this_path(Last(queue).path, Last(queue).entry), Last(queue).entry))

\* PakFile::file_chunk
file_chunk(chunks) ==
    IF FileChunkAt(chunks) = 0 THEN None ELSE Some(chunks[FileChunkAt(chunks)])

\* PakVfs::new.  Answers [res, entry_cache]; "Panic" when there is no File
\* chunk to unwrap.
PakVfs_new(chunks) ==
    IF file_chunk(chunks) = None THEN [res |-> "Panic", entry_cache |-> HashMap_new]
    ELSE [res |-> "Ok",
          entry_cache |-> index_entries(<<[path |-> <<>>, entry |-> file_chunk(chunks)[1].fs]>>, HashMap_new)]

\* PakVfs::entry_at
entry_at(map, path) ==
    LET lookup_key == IF path = <<>> THEN Slash ELSE path IN
    IF lookup_key \in DOMAIN map THEN [res |-> "Ok", val |-> map[lookup_key]]
    ELSE [res |-> "NotFound", val |-> <<>>]

\* What an operation of the file system answers: res, the value of an Ok,
\* and the range the source was asked to read (None when it was not).
Reply(res, val, primed) == [res |-> res, val |-> val, primed |-> primed]

\* BytesPakFileWrapper::prime_file: the slice source[start..end].
prime_file(source, start, end) ==
    IF start <= end /\ end <= Len(source)
    THEN [res |-> "Ok", val |-> SubSeq(source, start + 1, end)]
    ELSE [res |-> "Panic", val |-> <<>>]

\* VfsError::from(VfsErrorKind::IoError(err)): the error value open_file
\* returns when the decoder fails.  It holds the decoder's error and no
\* path; the offset is printed, not returned.
VfsError_IoError(err) == [kind |-> "IoError", err |-> err, path |-> <<>>]

\* An open_file that never decodes.
read_primed_copy(meta, primed, range) ==
    IF primed.res # "Ok" THEN Reply("Panic", <<>>, range) ELSE Reply("Ok", primed.val, range)

\* An open_file that decides by compression_level instead of compressed.
read_primed_by_level(meta, primed, range) ==
    IF primed.res # "Ok" THEN Reply("Panic", <<>>, range)
    ELSE IF meta.compression_level # 0
    THEN IF inflate(primed.val).res = "Ok" THEN Reply("Ok", inflate(primed.val).val, range)
         ELSE Reply("IoError", VfsError_IoError("corrupt deflate stream"), range)
    ELSE Reply("Ok", primed.val, range)

\* open_file once the range is primed: decode when compressed is not 0,
\* copy otherwise.
read_primed(meta, primed, range) ==
    IF primed.res # "Ok" THEN Reply("Panic", <<>>, range)
    ELSE IF meta.compressed # 0
    THEN IF inflate(primed.val).res = "Ok" THEN Reply("Ok", inflate(primed.val).val, range)
         ELSE IF inflate(primed.val).res = "Err" THEN Reply("IoError", VfsError_IoError("corrupt deflate stream"), range)
         ELSE Reply("Unmodelled", <<>>, range)
    ELSE Reply("Ok", primed.val, range)

\* An open_file that answers NotFound for a folder.
open_entry_folder_missing(found, source) ==
    IF found.res # "Ok" THEN Reply("NotFound", <<>>, None)
    ELSE IF found.val.meta.kind # "File" THEN Reply("NotFound", <<>>, None)
    ELSE read_primed(found.val.meta,
             prime_file(source, found.val.meta.offset,
                        found.val.meta.offset + found.val.meta.compressed_len),
             Some(<<found.val.meta.offset, found.val.meta.offset + found.val.meta.compressed_len>>))

open_entry(found, source) ==
    IF found.res # "Ok" THEN Reply("NotFound", <<>>, None)
    ELSE IF found.val.meta.kind # "File" THEN Reply("NotSupported", <<>>, None)
    ELSE read_primed(found.val.meta,
             prime_file(source, found.val.meta.offset,
                        found.val.meta.offset + found.val.meta.compressed_len),
             Some(<<found.val.meta.offset, found.val.meta.offset + found.val.meta.compressed_len>>))

\* FileSystem::open_file
open_file(map, source, path) == open_entry(entry_at(map, path), source)

\* A read_dir that lists the children last to first.
names_of_reversed(found) ==
    IF found.res # "Ok" THEN Reply("NotFound", <<>>, None)
    ELSE IF found.val.meta.kind # "Folder" THEN Reply("NotSupported", <<>>, None)
    ELSE Reply("Ok", [i \in 1..Len(found.val.meta.children) |->
                        FileEntry_name(found.val.meta.children[Len(found.val.meta.children) + 1 - i])], None)

names_of(found) ==
    IF found.res # "Ok" THEN Reply("NotFound", <<>>, None)
    ELSE IF found.val.meta.kind # "Folder" THEN Reply("NotSupported", <<>>, None)
    ELSE Reply("Ok", [i \in 1..Len(found.val.meta.children) |->
                        FileEntry_name(found.val.meta.children[i])], None)

\* FileSystem::read_dir
read_dir(map, path) == names_of(entry_at(map, path))

metadata_of(found) ==
    IF found.res # "Ok" THEN Reply("NotFound", <<>>, None)
    ELSE IF found.val.meta.kind = "Folder"
    THEN Reply("Ok", [file_type |-> "Directory", len |-> 0], None)
    ELSE Reply("Ok", [file_type |-> "File", len |-> found.val.meta.decompressed_len], None)

\* FileSystem::metadata
metadata(map, path) == metadata_of(entry_at(map, path))

\* FileSystem::exists
exists(map, path) == Reply("Ok", entry_at(map, path).res = "Ok", None)

\* The operations of FileSystem that would change the archive.
MutatingOps ==
    {"create_dir", "create_file", "append_file", "remove_file", "remove_dir",
     "copy_file", "move_file", "move_dir",
     "set_creation_time", "set_modification_time", "set_access_time"}

\* What a mutating operation answers, whatever its path: todo!() panics,
\* the others return Err(NotSupported).  AsyncFileSystem for PakVfs has the
\* same bodies.
mutating(op) ==
    IF op \in {"create_dir", "create_file", "append_file", "remove_file", "remove_dir"}
    THEN Reply("Panic", <<>>, None)
    ELSE Reply("NotSupported", <<>>, None)

\* No operation yet.
NoReply == [op |-> "none", path |-> <<>>, out |-> Reply("None", <<>>, None)]

(***************************************************************************)
(* The archives the file system is built over: FORM, HEAD, a DATA chunk    *)
(* that holds the bytes of the files, and the FILE chunk.  The DATA        *)
(* payload begins at offset 56: eight bytes of filler, the five bytes of   *)
(* the stored file at 64, the zlib stream of the compressed file at 69.    *)
(***************************************************************************)
StoredContent == <<10, 20, 30, 40, 50>>
PackedContent == <<7, 9>>
Blob == Zeros(8) \o StoredContent \o deflate_stored(PackedContent)

\* File entries whose fields disagree with the bytes they point at.
StoredShort == FileMeta(64, 5, 3, 0, 0, 0, 0, 77)        \* stored, 5 bytes, says 3
StoredStream == FileMeta(69, 13, 2, 0, 0, 0, 6, 99)      \* a zlib stream kept as stored
PackedLevel0 == FileMeta(69, 13, 2, 0, 0, 1, 0, 99)      \* compressed, level 0
PackedWrongLen == FileMeta(69, 13, 5, 0, 0, 1, 6, 99)    \* decodes to 2 bytes, says 5
PackedCorrupt == FileMeta(64, 5, 5, 0, 0, 1, 6, 77)      \* not a zlib stream
OutOfRange == FileMeta(200, 5, 5, 0, 0, 0, 0, 77)        \* past the end of the source
OddMetas == {StoredShort, StoredStream, PackedLevel0, PackedWrongLen, PackedCorrupt, OutOfRange}

VfsTrees ==
    TreesUpTo(MaxVfsNodes)
    \cup {FileEntry(<<>>, FolderMeta(<<FileEntry(NameA, m)>>)) : m \in OddMetas}

VfsWire(t) ==
    [chunks |-> Sized(<<WForm(0, PAC1), WHead(HeadLen, 1), WData(Blob), WFileOfTree(t)>>),
     trunc |-> 0]
VfsWires == {VfsWire(t) : t \in VfsTrees}

\* The paths given to the file system: "", "/", every '/'-joined sequence
\* of up to MaxVfsNodes names with and without the leading '/', and two
\* with a '/' too many.
RECURSIVE NameSeqs(_)
NameSeqs(n) ==
    IF n = 0 THEN {<<>>}
    ELSE {<<a>> \o ns : a \in Names, ns \in NameSeqs(n - 1)}
AbsPath(ns) == IF ns = <<>> THEN Slash ELSE Concat([i \in 1..Len(ns) |-> Slash \o ns[i]])
Paths ==
    {<<>>, Slash, Slash \o Slash \o NameA, Slash \o NameA \o Slash}
    \cup UNION {{AbsPath(ns), Tail(AbsPath(ns))} : ns \in UNION {NameSeqs(n) : n \in 1..MaxVfsNodes}}

(***************************************************************************)
(* FileEntry::merge and FileEntry::merge_ref.  Every FileEntry is an       *)
(* allocation of heap; an RcFileEntry is the id of its allocation, and the *)
(* children of a folder are ids.  held is every reference alive at the     *)
(* moment: the roots the handles own and the locals of the calls under     *)
(* way.  A call answers [res, heap]; res is "Panic" when an assert or an   *)
(* expect fails, and heap is then as the panic left it.                    *)
(***************************************************************************)
NameC == <<99>>

\* Every tree with exactly k entries and every sequence of trees with n
\* entries in all, their names taken from names.
RECURSIVE MergeNodesOf(_, _)
RECURSIVE MergeForestsOf(_, _)
MergeNodesOf(names, k) ==
    (IF k = 1 THEN {FileLeaf(n) : n \in names} ELSE {})
    \cup {FileEntry(n, FolderMeta(f)) : n \in names, f \in MergeForestsOf(names, k - 1)}
MergeForestsOf(names, n) ==
    IF n = 0 THEN {<<>>}
    ELSE UNION {{<<t>> \o f : t \in MergeNodesOf(names, k), f \in MergeForestsOf(names, n - k)} : k \in 1..n}

\* The root folders that hold exactly k entries.
MergeRoots(names, k) == {FileEntry(<<>>, FolderMeta(f)) : f \in MergeForestsOf(names, k)}

\* The handles that own a tree.
Handles == {"A", "B", "C"}

\* Three trees of at most MaxMergeNodes entries below their roots in all,
\* the names of A and B taken from names and those of C from others.
MergeInputs(names, others) ==
    UNION {UNION {UNION {
        {[A |-> a, B |-> b, C |-> c] :
            a \in MergeRoots(names, ka), b \in MergeRoots(names, kb), c \in MergeRoots(others, kc)}
            : kc \in 0..(MaxMergeNodes - ka - kb)} : kb \in 0..(MaxMergeNodes - ka)} : ka \in 0..MaxMergeNodes}

\* RcFileEntry::new over a whole decoded tree: the entries below t and then
\* t are appended to the heap, so that the id of t is the length of the
\* result.
RECURSIVE plant(_, _)
RECURSIVE plant_all(_, _, _)
plant_all(h, ts, ids) ==
    IF ts = <<>> THEN [heap |-> h, ids |-> ids]
    ELSE plant_all(plant(h, Head(ts)), Tail(ts), Append(ids, Len(plant(h, Head(ts)))))
plant(h, t) ==
    IF t.meta.kind = "File" THEN Append(h, t)
    ELSE Append(plant_all(h, t.meta.children, <<>>).heap,
                FileEntry(t.name, FolderMeta(plant_all(h, t.meta.children, <<>>).ids)))

\* The tree an id stands for.
RECURSIVE TreeOf(_, _)
TreeOf(h, id) ==
    IF h[id].meta.kind = "File" THEN h[id]
    ELSE FileEntry(h[id].name,
                   FolderMeta([i \in 1..Len(h[id].meta.children) |-> TreeOf(h, h[id].meta.children[i])]))

\* The children of an allocation (none for a file).
Kids(h, id) == IF h[id].meta.kind = "Folder" THEN h[id].meta.children ELSE <<>>

\* The allocations that are alive: reachable from a held reference.
RECURSIVE Reach(_, _)
Reach(h, ids) ==
    IF UNION {{Kids(h, p)[i] : i \in 1..Len(Kids(h, p))} : p \in ids} \subseteq ids THEN ids
    ELSE Reach(h, ids \cup UNION {{Kids(h, p)[i] : i \in 1..Len(Kids(h, p))} : p \in ids})

Occurs(seq, x) == Cardinality({i \in 1..Len(seq) : seq[i] = x})

\* Rc::strong_count: the held references to id and the references to it
\* from the children of live folders.
strong_count(h, held, id) ==
    Occurs(held, id)
    + Cardinality({pi \in UNION {{<<p, i>> : i \in 1..Len(Kids(h, p))}
                                    : p \in Reach(h, {held[k] : k \in 1..Len(held)})}
                      : Kids(h, pi[1])[pi[2]] = id})

\* self_children.iter_mut().find(|c| c.name == name): the first child of
\* self with the name, 0 when there is none.
find_child(h, self, nm) ==
    IF \E i \in 1..Len(Kids(h, self)) : h[Kids(h, self)[i]].name = nm
    THEN Kids(h, self)[CHOOSE i \in 1..Len(Kids(h, self)) :
                          /\ h[Kids(h, self)[i]].name = nm
                          /\ \A j \in 1..(i - 1) : h[Kids(h, self)[j]].name # nm]
    ELSE 0

\* A push that puts the child first.
push_rc_front(h, self, child) == [h EXCEPT ![self].meta.children = <<child>> \o @]

\* self_children.push(child)
push_rc(h, self, child) == [h EXCEPT ![self].meta.children = Append(@, child)]

Panicked(h) == [res |-> "Panic", heap |-> h]

\* RcFileEntry::get_mut that hands out a shared entry as well.
get_mut_shared(h, held, id) == TRUE

\* RcFileEntry::get_mut(id).is_some(): nothing else holds the entry.
get_mut(h, held, id) == strong_count(h, held, id) = 1

\* RcFileEntry::try_unwrap(id).is_ok()
try_unwrap(h, held, id) == strong_count(h, held, id) = 1

\* FileEntry::merge(self, other): other is a value, its children are moved
\* out one at a time; rest are those the loop has not reached yet.
RECURSIVE merge(_, _, _, _)
RECURSIVE merge_each(_, _, _, _)
RECURSIVE merge_after(_, _, _, _)
merge_each(h, held, self, rest) ==
    IF rest = <<>> THEN [res |-> "Ok", heap |-> h]
    ELSE IF find_child(h, self, h[Head(rest)].name) = 0
    THEN merge_each(push_rc(h, self, Head(rest)), held, self, Tail(rest))
    ELSE IF h[Head(rest)].meta.kind # h[find_child(h, self, h[Head(rest)].name)].meta.kind
    THEN Panicked(h)
    ELSE IF h[Head(rest)].meta.kind = "File" THEN Panicked(h)
    ELSE IF ~get_mut(h, held \o rest, find_child(h, self, h[Head(rest)].name)) THEN Panicked(h)
    ELSE IF ~try_unwrap(h, held \o rest, Head(rest)) THEN Panicked(h)
    ELSE merge_after(merge(h, held \o Tail(rest), find_child(h, self, h[Head(rest)].name), Head(rest)),
                     held, self, Tail(rest))
merge_after(inner, held, self, rest) ==
    IF inner.res # "Ok" THEN inner ELSE merge_each(inner.heap, held, self, rest)
merge(h, held, self, other) ==
    IF h[self].meta.kind # "Folder" \/ h[other].meta.kind # "Folder" THEN Panicked(h)
    ELSE merge_each(h, held, self, Kids(h, other))

\* FileEntry::merge_ref(self, other): other is an Rc the call holds, its
\* children are cloned, never moved.
RECURSIVE merge_ref(_, _, _, _)
RECURSIVE merge_ref_each(_, _, _, _)
RECURSIVE merge_ref_after(_, _, _, _)
merge_ref_each(h, held, self, rest) ==
    IF rest = <<>> THEN [res |-> "Ok", heap |-> h]
    ELSE IF find_child(h, self, h[Head(rest)].name) = 0
    THEN merge_ref_each(push_rc(h, self, Head(rest)), held, self, Tail(rest))
    ELSE IF h[Head(rest)].meta.kind # h[find_child(h, self, h[Head(rest)].name)].meta.kind
    THEN Panicked(h)
    ELSE IF h[Head(rest)].meta.kind = "File" THEN Panicked(h)
    ELSE IF ~get_mut(h, held, find_child(h, self, h[Head(rest)].name)) THEN Panicked(h)
    ELSE merge_ref_after(merge_ref(h, held, find_child(h, self, h[Head(rest)].name), Head(rest)),
                         held, self, Tail(rest))
merge_ref_after(inner, held, self, rest) ==
    IF inner.res # "Ok" THEN inner ELSE merge_ref_each(inner.heap, held, self, rest)
merge_ref(h, held, self, other) ==
    IF h[self].meta.kind # "Folder" \/ h[other].meta.kind # "Folder" THEN Panicked(h)
    ELSE merge_ref_each(h, Append(held, other), self, Kids(h, other))

(***************************************************************************)
(* The callers.  OneShot is PakFile::parse over the whole source.  Start,  *)
(* Refill and SkipAdvance are the streaming caller: it hands                *)
(* PakParser::parse a buffer that begins at source offset bytes_parsed,    *)
(* refills on Continue and moves on by count on Skip.  A "window" caller   *)
(* fetches a whole window each time (parse_pak_file), a "byte" caller      *)
(* grows its buffer one byte at a time.                                    *)
(***************************************************************************)
Buf == SubSeq(src, bufStart + 1, bufStart + bufLen)

\* No tree is held for merging.
NoTrees ==
    /\ heap = <<>>
    /\ owner = <<>>
    /\ original = <<>>
    /\ calls = <<>>

\* The cache is empty and no call is in flight.
NoBuffers ==
    /\ buffer = HashMap_new
    /\ reading = <<>>
    /\ evicted = <<>>
    /\ mutex = <<>>
    /\ call = <<>>
    /\ filled = <<>>
    /\ returned = <<>>

\* No search has been asked for.
NoSearches ==
    /\ target = <<>>
    /\ task_queue = 0
    /\ search_stop = <<>>
    /\ searches = <<>>

\* No tree is shown.
NoFileTree ==
    /\ overlay_fs = <<>>
    /\ filter = <<>>
    /\ file_tree = <<>>
    /\ builder = <<>>

InitParse(wires, feeds) ==
    /\ wire \in wires
    /\ src = SourceOf(wire)
    /\ feed \in feeds
    /\ oneshot = [res |-> "Pending", chunks |-> <<>>]
    /\ parser = PakParser_new
    /\ pc = "init"
    /\ ret = "None"
    /\ bufStart = 0
    /\ bufLen = 0
    /\ cursor = 0
    /\ skipFrom = 0
    /\ skipCount = 0
    /\ pak_file = <<>>
    /\ entry_cache = HashMap_new
    /\ reply = NoReply

InitWith(wires, feeds) ==
    /\ NoTrees
    /\ NoBuffers
    /\ NoSearches
    /\ NoFileTree
    /\ InitParse(wires, feeds)

Init == InitWith(Wires, Feeds)

InitTree == InitWith(TreeWires, {"window"})

OneShot ==
    /\ pc = "init"
    /\ oneshot' = PakFile_parse(src)
    /\ pc' = "idle"
    /\ UNCHANGED <<wire, src, feed, parser, ret, bufStart, bufLen, cursor, skipFrom, skipCount, pak_file, entry_cache, reply, mergeVars, cacheVars, lockVars, searchVars, treeVars>>

\* The caller's next buffer: it begins at bytes_parsed and holds what the
\* source has there, up to kept + 1 bytes (byte) or a whole window.
Fetch(kept) ==
    /\ bufStart' = parser.bytes_parsed
    /\ bufLen' = Min(IF feed = "byte" THEN kept + 1 ELSE Window,
                     Max(0, Len(src) - parser.bytes_parsed))
    /\ cursor' = 0
    /\ pc' = "parse"
    /\ UNCHANGED <<wire, src, feed, oneshot, parser, ret, skipFrom, skipCount, pak_file, entry_cache, reply, mergeVars, cacheVars, lockVars, searchVars, treeVars>>

Start ==
    /\ pc = "idle"
    /\ ret = "None"
    /\ Fetch(0)

Refill ==
    /\ pc = "idle"
    /\ ret = "Continue"
    /\ Fetch(bufStart + bufLen - parser.bytes_parsed)

SkipAdvance ==
    /\ pc = "idle"
    /\ ret = "Skip"
    /\ Fetch(0)

\* What one parse_impl leaves: the parser, the cursor, and where parse goes on.
Returned(r) ==
    /\ parser' = r.parser
    /\ cursor' = r.pos
    /\ ret' = r.ret
    /\ skipFrom' = IF r.ret = "Skip" THEN r.from ELSE skipFrom
    /\ skipCount' = IF r.ret = "Skip" THEN r.count ELSE skipCount
    /\ pc' = IF r.ret = "Loop" THEN "parse"
             ELSE IF r.ret \in {"Continue", "Skip"} THEN "idle"
             ELSE "done"

\* One turn of the loop of PakParser::parse while the state is not Done.
ParseImpl ==
    /\ pc = "parse"
    /\ parser.state.kind # "Done"
    /\ Returned(parse_impl(parser, Buf, cursor))
    /\ UNCHANGED <<wire, src, feed, oneshot, bufStart, bufLen, pak_file, entry_cache, reply, mergeVars, cacheVars, lockVars, searchVars, treeVars>>

\* PakParser::parse with the state Done: Done(self.complete()).
ParseDone ==
    /\ pc = "parse"
    /\ parser.state.kind = "Done"
    /\ ret' = "Done"
    /\ pak_file' = complete(parser)
    /\ pc' = "done"
    /\ UNCHANGED <<wire, src, feed, oneshot, parser, bufStart, bufLen, cursor, skipFrom, skipCount, entry_cache, reply, mergeVars, cacheVars, lockVars, searchVars, treeVars>>

Next == OneShot \/ Start \/ Refill \/ SkipAdvance \/ ParseImpl \/ ParseDone

Spec == Init /\ [][Next]_vars

SpecTree == InitTree /\ [][Next]_vars

\* PakVfs::new over the parsed archive, the source kept beside it
\* (BytesPakFileWrapper::new).
NewVfs ==
    /\ pc = "done"
    /\ ret = "Done"
    /\ entry_cache' = PakVfs_new(pak_file).entry_cache
    /\ pc' = IF PakVfs_new(pak_file).res = "Ok" THEN "vfs" ELSE "vfs_panic"
    /\ UNCHANGED <<wire, src, feed, oneshot, parser, ret, bufStart, bufLen, cursor, skipFrom, skipCount, pak_file, reply, mergeVars, cacheVars, lockVars, searchVars, treeVars>>

\* An operation of the file system answers: nothing but reply changes.
Answers(op, path, out) ==
    /\ reply' = [op |-> op, path |-> path, out |-> out]
    /\ UNCHANGED <<wire, src, feed, oneshot, parser, pc, ret, bufStart, bufLen, cursor, skipFrom, skipCount, pak_file, entry_cache, mergeVars, cacheVars, lockVars, searchVars, treeVars>>

ReadDir == pc = "vfs" /\ \E path \in Paths : Answers("read_dir", path, read_dir(entry_cache, path))

OpenFile == pc = "vfs" /\ \E path \in Paths : Answers("open_file", path, open_file(entry_cache, src, path))

Metadata == pc = "vfs" /\ \E path \in Paths : Answers("metadata", path, metadata(entry_cache, path))

Exists == pc = "vfs" /\ \E path \in Paths : Answers("exists", path, exists(entry_cache, path))

InitVfs == InitWith(VfsWires, {"window"})

NextVfs == Next \/ NewVfs \/ ReadDir \/ OpenFile \/ Metadata \/ Exists

SpecVfs == InitVfs /\ [][NextVfs]_vars

\* A mutating operation is called on the file system.
Mutate ==
    /\ pc = "vfs"
    /\ \E op \in MutatingOps, path \in {Slash, Slash \o NameA, Slash \o NameB} :
          Answers(op, path, mutating(op))

NextMut == Next \/ NewVfs \/ Mutate

SpecMut == InitVfs /\ [][NextMut]_vars

(***************************************************************************)
(* The callers of merge and merge_ref: three handles A, B and C each own a *)
(* decoded tree, and merge one into another.                               *)
(***************************************************************************)
\* The heap and the owners once the three trees of t are allocated.
Planted(t) ==
    [heap |-> plant(plant(plant(<<>>, t.A), t.B), t.C),
     owner |-> [A |-> Len(plant(<<>>, t.A)),
                B |-> Len(plant(plant(<<>>, t.A), t.B)),
                C |-> Len(plant(plant(plant(<<>>, t.A), t.B), t.C))]]

InitMergeOf(inputs) ==
    /\ InitParse({VfsWire(SampleTree)}, {"window"})
    /\ NoBuffers
    /\ NoSearches
    /\ NoFileTree
    /\ original \in inputs
    /\ heap = Planted(original).heap
    /\ owner = Planted(original).owner
    /\ calls = <<>>

\* The roots the live handles hold.
LiveRoots(ow) == SelectSeq(<<ow.A, ow.B, ow.C>>, LAMBDA id : id # 0)

\* No call has panicked.
NoPanic == \A i \in 1..Len(calls) : calls[i].res = "Ok"

\* A merge returns or panics: the heap is as it left it.
Called(op, into, from, out) ==
    /\ heap' = out.heap
    /\ calls' = Append(calls, [op |-> op, into |-> into, from |-> from, res |-> out.res])
    /\ UNCHANGED <<wire, src, feed, oneshot, parser, pc, ret, bufStart, bufLen, cursor, skipFrom, skipCount, pak_file, entry_cache, reply, original, cacheVars, lockVars, searchVars, treeVars>>

\* into.merge(from): from is moved into the call.
Merge ==
    /\ NoPanic
    /\ \E into \in Handles, from \in Handles :
        /\ owner[into] # 0 /\ owner[from] # 0
        /\ <<into, from>> \in {<<"A", "B">>, <<"A", "C">>, <<"B", "C">>}
        /\ owner' = [owner EXCEPT ![from] = 0]
        /\ Called("merge", into, from,
                  merge(heap, LiveRoots([owner EXCEPT ![from] = 0]), owner[into], owner[from]))

\* into.merge(from.clone()), the body of the loop of parse_pak_files: the
\* clone is a new root that shares the children of from; from is alive
\* during the call and dropped after it.
MergeClone ==
    /\ NoPanic
    /\ \E into \in Handles, from \in Handles :
        /\ owner[into] # 0 /\ owner[from] # 0
        /\ <<into, from>> \in {<<"A", "B">>, <<"A", "C">>, <<"B", "C">>}
        /\ owner' = [owner EXCEPT ![from] = 0]
        /\ Called("merge_clone", into, from,
                  merge(Append(heap, heap[owner[from]]), LiveRoots(owner), owner[into], Len(heap) + 1))

\* A.merge_ref(RcFileEntry::clone(from)): the source stays alive.
MergeRef ==
    /\ NoPanic
    /\ Len(calls) < MaxCalls
    /\ \E from \in {"B", "C"} :
        /\ owner[from] # 0
        /\ UNCHANGED owner
        /\ Called("merge_ref", "A", from, merge_ref(heap, LiveRoots(owner), owner.A, owner[from]))

\* The handle of a source goes out of scope.
Drop ==
    /\ NoPanic
    /\ \E h \in {"B", "C"} :
        /\ owner[h] # 0
        /\ owner' = [owner EXCEPT ![h] = 0]
        /\ UNCHANGED <<wire, src, feed, oneshot, parser, pc, ret, bufStart, bufLen, cursor, skipFrom, skipCount, pak_file, entry_cache, reply, heap, original, calls, cacheVars, lockVars, searchVars, treeVars>>

InitMerge == InitMergeOf(MergeInputs(Names, {NameB, NameC}))

NextMerge == Merge \/ MergeClone

SpecMerge == InitMerge /\ [][NextMerge]_vars

InitMergeRef == InitMergeOf(MergeInputs(Names, Names))

NextMergeRef == MergeRef \/ Drop

SpecMergeRef == InitMergeRef /\ [][NextMergeRef]_vars

(***************************************************************************)
(* CachingAsyncPakFileWrapper: AsyncPrime::prime_file and its cache of     *)
(* buffers, keyed by the range read.  Two tasks call prime_file; a call    *)
(* that misses gives up the lock while read_at runs.                       *)
(***************************************************************************)
MEM_LIMIT == 1024 * 1024 * 20

\* The ranges asked for are those of the files of the source, laid end to
\* end: 5, 10, 15, 5, 10, ... MiB long.
BlockLen == 1024 * 1024 * 5
FileLen(i) == (((i - 1) % 3) + 1) * BlockLen
RECURSIVE FileStart(_)
FileStart(i) == IF i = 1 THEN 0 ELSE FileStart(i - 1) + FileLen(i - 1)
Ranges == {<<FileStart(i), FileStart(i) + FileLen(i)>> : i \in 1..MaxFiles}
Tasks == {"t1", "t2"}

\* file_range.end - file_range.start, the capacity of the new buffer.
file_size(file_range) == file_range[2] - file_range[1]

\* buffers.iter().map(|(k, v)| (k, v.0.capacity())).fold(0, +)
RECURSIVE sum_capacity(_, _)
sum_capacity(buffers, keys) ==
    IF keys = {} THEN 0
    ELSE buffers[CHOOSE k \in keys : TRUE]
            + sum_capacity(buffers, keys \ {CHOOSE k \in keys : TRUE})
mem_usage_of(buffers) == sum_capacity(buffers, DOMAIN buffers)

\* A sort that puts the largest buffers first.
RECURSIVE descending(_, _)
descending(buffers, keys) ==
    IF keys = {} THEN {<<>>}
    ELSE UNION {{<<k>> \o o : o \in descending(buffers, keys \ {k})}
                  : k \in {m \in keys : \A other \in keys : buffers[m] >= buffers[other]}}
sort_by_key_descending(buffers) == descending(buffers, DOMAIN buffers)

\* buffers_and_mem_usage.sort_by_key(|(_, v)| *v): the keys by ascending
\* capacity.  Keys of equal capacity stay in the order the HashMap iterated
\* them, which is any order.
RECURSIVE ascending(_, _)
ascending(buffers, keys) ==
    IF keys = {} THEN {<<>>}
    ELSE UNION {{<<k>> \o o : o \in ascending(buffers, keys \ {k})}
                  : k \in {m \in keys : \A other \in keys : buffers[m] <= buffers[other]}}
sort_by_key(buffers) == ascending(buffers, DOMAIN buffers)

\* buffers.remove(&k)
HashMap_remove(map, key) == [k \in DOMAIN map \ {key} |-> map[k]]

\* The eviction loop: remove the keys in order, stop once the usage is below
\* MEM_LIMIT.  Answers the map and the number of keys removed.
RECURSIVE evict_loop(_, _, _, _)
evict_loop(buffers, order, mem_usage, n) ==
    IF order = <<>> THEN [buffers |-> buffers, removed |-> n]
    ELSE IF mem_usage - buffers[Head(order)] < MEM_LIMIT
    THEN [buffers |-> HashMap_remove(buffers, Head(order)), removed |-> n + 1]
    ELSE evict_loop(HashMap_remove(buffers, Head(order)), Tail(order),
                    mem_usage - buffers[Head(order)], n + 1)

\* An insertion that never evicts.
evict_never(buffers, order) == [buffers |-> buffers, removed |-> 0]

\* if mem_usage > MEM_LIMIT { sort; evict }
evict(buffers, order) ==
    IF mem_usage_of(buffers) > MEM_LIMIT THEN evict_loop(buffers, order, mem_usage_of(buffers), 0)
    ELSE [buffers |-> buffers, removed |-> 0]

\* What evicted holds: the cache the last insertion found and the keys it
\* removed, in order.
Eviction(before, removed) == [before |-> before, removed |-> removed]

\* The ranges prime_file is asked for: those of the files, and one that
\* starts where the first file starts and ends where the second ends.
Asked == Ranges \cup {<<FileStart(1), FileStart(3)>>}

\* read_at(file_range) over the source: the bytes from file_range.start on.
read_at(file_range) == [from |-> file_range[1], len |-> file_range[2] - file_range[1]]

\* Buffer::with_capacity(file_size), io::copy into buffer.space(), and
\* buffer.fill(read): the buffer holds what fits of the bytes read.
fill(capacity, data) == [from |-> data.from, len |-> Min(data.len, capacity)]

\* A lookup that answers any buffer that starts where the range starts.
get_by_start(map, key) ==
    IF \E k \in DOMAIN map : k[1] = key[1]
    THEN Some(map[CHOOSE k \in DOMAIN map : k[1] = key[1]])
    ELSE None

\* buffers.get(&file_range)
HashMap_get(map, key) ==
    IF key \in DOMAIN map THEN Some(map[key]) ELSE None

\* A guard that is still held when the block has ended.
guard_kept(holder) == holder

\* The MutexGuard goes out of scope: the lock is free.
drop_guard(holder) == None

\* An error of read_at answered with an empty buffer under the range.
cache_the_error(held, file_range) == HashMap_insert(held, file_range, fill(0, read_at(file_range)))

\* read_at(..).await?: an error returns at once, the cache is not touched.
propagate(held, file_range) == held

\* Where a call of prime_file stands.
Idle == [pc |-> "idle", file_range |-> None, data |-> None]
Standing(pc_, file_range, data) == [pc |-> pc_, file_range |-> Some(file_range), data |-> data]

\* What prime_file returned.
Primed(file_range, res, data, fetched) ==
    [file_range |-> file_range, res |-> res, data |-> data, fetched |-> fetched]

\* Everything but the wrapper.
parseVars == <<wire, src, feed, oneshot, parser, pc, ret, bufStart, bufLen, cursor, skipFrom, skipCount, pak_file, entry_cache, reply, mergeVars, searchVars, treeVars>>

InitCache ==
    /\ InitParse({VfsWire(SampleTree)}, {"window"})
    /\ NoTrees
    /\ NoSearches
    /\ NoFileTree
    /\ buffer = HashMap_new
    /\ reading = [t \in Tasks |-> None]
    /\ evicted = Eviction(HashMap_new, <<>>)
    /\ mutex = None
    /\ call = [t \in Tasks |-> Idle]
    /\ filled = HashMap_new
    /\ returned = None

\* prime_file is called and takes the lock for the lookup.
Lock ==
    \E t \in Tasks, file_range \in Asked :
        /\ call[t].pc = "idle"
        /\ mutex = None
        /\ mutex' = Some(t)
        /\ call' = [call EXCEPT ![t] = Standing("lookup", file_range, None)]
        /\ UNCHANGED <<parseVars, cacheVars, filled, returned>>

\* prime_file finds the range cached and returns a clone of the buffer.
Hit ==
    \E t \in Tasks :
        /\ call[t].pc = "lookup"
        /\ HashMap_get(filled, call[t].file_range[1]) # None
        /\ returned' = Some(Primed(call[t].file_range[1], "Ok", HashMap_get(filled, call[t].file_range[1])[1], FALSE))
        /\ mutex' = drop_guard(mutex)
        /\ call' = [call EXCEPT ![t] = Idle]
        /\ UNCHANGED <<parseVars, cacheVars, filled>>

\* prime_file does not find the range: the lookup block ends and it awaits
\* read_at.
Miss ==
    \E t \in Tasks :
        /\ call[t].pc = "lookup"
        /\ HashMap_get(filled, call[t].file_range[1]) = None
        /\ mutex' = drop_guard(mutex)
        /\ call' = [call EXCEPT ![t] = Standing("read_at", call[t].file_range[1], None)]
        /\ reading' = [reading EXCEPT ![t] = call[t].file_range]
        /\ UNCHANGED <<parseVars, buffer, evicted, filled, returned>>

\* read_at fails: prime_file returns the error.
ReadFails ==
    \E t \in Tasks :
        /\ call[t].pc = "read_at"
        /\ filled' = propagate(filled, call[t].file_range[1])
        /\ buffer' = [k \in DOMAIN filled' |-> IF k \in DOMAIN buffer THEN buffer[k] ELSE 0]
        /\ returned' = Some(Primed(call[t].file_range[1], "Err", None, TRUE))
        /\ call' = [call EXCEPT ![t] = Idle]
        /\ reading' = [reading EXCEPT ![t] = None]
        /\ UNCHANGED <<parseVars, evicted, mutex>>

\* The future is dropped while it awaits read_at.
Cancel ==
    \E t \in Tasks :
        /\ call[t].pc = "read_at"
        /\ call' = [call EXCEPT ![t] = Idle]
        /\ reading' = [reading EXCEPT ![t] = None]
        /\ UNCHANGED <<parseVars, buffer, evicted, mutex, filled, returned>>

\* read_at returns: prime_file fills a new buffer and takes the lock.
ReadReturns ==
    \E t \in Tasks :
        /\ call[t].pc = "read_at"
        /\ mutex = None
        /\ mutex' = Some(t)
        /\ call' = [call EXCEPT ![t] = Standing("publish", call[t].file_range[1],
                        Some(fill(file_size(call[t].file_range[1]), read_at(call[t].file_range[1]))))]
        /\ reading' = [reading EXCEPT ![t] = None]
        /\ UNCHANGED <<parseVars, buffer, evicted, filled, returned>>

\* Under the lock prime_file evicts when the usage is above MEM_LIMIT,
\* inserts the new buffer and returns a clone of it.
Inserts ==
    \E t \in Tasks :
        /\ call[t].pc = "publish"
        /\ \E order \in sort_by_key(buffer) :
            /\ buffer' = HashMap_insert(evict(buffer, order).buffers, call[t].file_range[1], file_size(call[t].file_range[1]))
            /\ evicted' = Eviction(buffer, SubSeq(order, 1, evict(buffer, order).removed))
        /\ filled' = [k \in DOMAIN buffer' |-> IF k = call[t].file_range[1] THEN call[t].data[1] ELSE filled[k]]
        /\ returned' = Some(Primed(call[t].file_range[1], "Ok", call[t].data[1], TRUE))
        /\ mutex' = drop_guard(mutex)
        /\ call' = [call EXCEPT ![t] = Idle]
        /\ UNCHANGED <<parseVars, reading>>

NextCache == Lock \/ Hit \/ Miss \/ ReadFails \/ Cancel \/ ReadReturns \/ Inserts

SpecCache == InitCache /\ [][NextCache]_vars

(***************************************************************************)
(* The UI's background tasks (crates/ui/src/task.rs): the searches that    *)
(* process_background_requests starts and stops.  A stop flag is an        *)
(* Arc<AtomicBool> shared by the function's local search_stop and the      *)
(* search it was cloned for.                                               *)
(***************************************************************************)
\* Everything but the searches.
notSearchVars == <<wire, src, feed, oneshot, parser, pc, ret, bufStart, bufLen, cursor, skipFrom, skipCount, pak_file, entry_cache, reply, mergeVars, cacheVars, lockVars, treeVars>>

\* A search that has just been spawned.
Search == [stop |-> FALSE, pc |-> "top", sent |-> 0, late |-> 0]

\* let mut search_stop = Arc::new(AtomicBool::new(false)): a flag that no
\* search shares (0), held by the call that runs.
NewFlag == [running |-> TRUE, flag |-> 0]
NotRunning == [running |-> FALSE, flag |-> 0]

\* A store that leaves the flag as it is.
store_nothing(all, flag) == all

\* search_stop.store(true): the search that shares the flag, if any, sees it.
store_true(all, flag) ==
    [i \in 1..Len(all) |-> IF i = flag THEN [all[i] EXCEPT !.stop = TRUE] ELSE all[i]]

InitSearch ==
    /\ InitParse({VfsWire(SampleTree)}, {"window"})
    /\ NoTrees
    /\ NoBuffers
    /\ NoFileTree
    /\ target \in {"native", "wasm32"}
    /\ task_queue = 0
    /\ search_stop = NotRunning
    /\ searches = <<>>

\* The UI sends a PerformSearch task.
SendSearch ==
    /\ Len(searches) + task_queue < MaxSearches
    /\ task_queue' = task_queue + 1
    /\ UNCHANGED <<notSearchVars, target, search_stop, searches>>

\* process_background_requests is entered: by the background thread, once,
\* or by update(), once per frame.
ProcessRequests ==
    /\ ~search_stop.running
    /\ search_stop' = NewFlag
    /\ UNCHANGED <<notSearchVars, target, task_queue, searches>>

\* A PerformSearch task is received: the flag held is set and dropped, a
\* new flag is made and a search spawned with a clone of it.
PerformSearch ==
    /\ search_stop.running
    /\ task_queue > 0
    /\ task_queue' = task_queue - 1
    /\ searches' = Append(store_true(searches, search_stop.flag), Search)
    /\ search_stop' = [running |-> TRUE, flag |-> Len(searches) + 1]
    /\ UNCHANGED <<notSearchVars, target>>

\* try_recv finds the queue empty: the call of this frame returns.
FrameEnds ==
    /\ target = "wasm32"
    /\ search_stop.running
    /\ task_queue = 0
    /\ search_stop' = NotRunning
    /\ UNCHANGED <<notSearchVars, target, task_queue, searches>>

\* perform_search at the top of its loop: it breaks when told to stop or
\* when no file is left, else it reads the next file with a match.
SearchNext ==
    \E i \in 1..Len(searches) :
        /\ searches[i].pc = "top"
        /\ \E more \in BOOLEAN :
              searches' = [searches EXCEPT ![i].pc =
                              IF searches[i].stop \/ ~more \/ searches[i].sent = MaxFound
                              THEN "done" ELSE "found"]
        /\ UNCHANGED <<notSearchVars, target, task_queue, search_stop>>

\* perform_search loads the flag once more before it sends.
SearchChecks ==
    \E i \in 1..Len(searches) :
        /\ searches[i].pc = "found"
        /\ searches' = [searches EXCEPT ![i].pc = IF searches[i].stop THEN "done" ELSE "send"]
        /\ UNCHANGED <<notSearchVars, target, task_queue, search_stop>>

\* perform_search sends a SearchResult.
SearchSends ==
    \E i \in 1..Len(searches) :
        /\ searches[i].pc = "send"
        /\ searches' = [searches EXCEPT ![i].pc = "top",
                                        ![i].sent = @ + 1,
                                        ![i].late = IF i < Len(searches) THEN @ + 1 ELSE @]
        /\ UNCHANGED <<notSearchVars, target, task_queue, search_stop>>

NextSearch == SendSearch \/ ProcessRequests \/ PerformSearch \/ FrameEnds \/ SearchNext \/ SearchChecks \/ SearchSends

SpecSearch == InitSearch /\ [][NextSearch]_vars


(***************************************************************************)
(* What the wire says about the source, for the properties below.          *)
(***************************************************************************)
\* The archive follows FORM HEAD? (DATA | FILE)*, every length it states is
\* the length of what it frames, and the source holds all of it.
WellFormed(w) ==
    /\ w.trunc = 0
    /\ w.chunks # <<>>
    /\ w.chunks[1].cc = "FORM"
    /\ w.chunks[1].tag = PAC1
    /\ w.chunks[1].file_size = Len(EncodeChunks(w.chunks)) - 8
    /\ \A i \in 2..Len(w.chunks) :
        LET c == w.chunks[i] IN
        /\ c.cc \in {"HEAD", "DATA", "FILE"}
        /\ c.cc = "HEAD" => (i = 2 /\ c.len = HeadLen)
        /\ c.cc = "FILE" => (c.tree # None /\ c.chunk_len = Len(EncodeEntries(c.entries)))

\* The source offset of the four-CC of chunk i (of the end, for i past the last).
ChunkStart(w, i) == Len(EncodeChunks(SubSeq(w.chunks, 1, i - 1)))

KindOf(cc) ==
    CASE cc = "FORM" -> "Form" [] cc = "HEAD" -> "Head" [] cc = "DATA" -> "Data"
      [] cc = "FILE" -> "File" [] OTHER -> "Unknown"

\* The kinds of the chunks that begin before source offset upto, in order.
RECURSIVE KindsBefore(_, _, _)
KindsBefore(w, i, upto) ==
    IF i > Len(w.chunks) \/ ChunkStart(w, i) >= upto THEN <<>>
    ELSE <<KindOf(w.chunks[i].cc)>> \o KindsBefore(w, i + 1, upto)

Kinds(chunks) == [i \in 1..Len(chunks) |-> chunks[i].kind]

CountKind(chunks, k) == Cardinality({i \in 1..Len(chunks) : chunks[i].kind = k})

\* The number of entries of a decoded tree.
RECURSIVE EntryCount(_)
RECURSIVE EntryCountAll(_)
EntryCount(t) == IF t.meta.kind = "Folder" THEN 1 + EntryCountAll(t.meta.children) ELSE 1
EntryCountAll(ts) == IF ts = <<>> THEN 0 ELSE EntryCount(Head(ts)) + EntryCountAll(Tail(ts))

\* The first FILE chunk of the wire (0 when it has none).
FirstFile(w) ==
    IF \E i \in 1..Len(w.chunks) : w.chunks[i].cc = "FILE"
    THEN CHOOSE i \in 1..Len(w.chunks) :
            /\ w.chunks[i].cc = "FILE"
            /\ \A j \in 1..(i - 1) : w.chunks[j].cc # "FILE"
    ELSE 0

\* The streaming parser has decoded the header of the first FILE chunk.
FileHeaderDecoded ==
    /\ FirstFile(wire) # 0
    /\ parser.bytes_parsed >= ChunkStart(wire, FirstFile(wire)) + 8

\* The caller has supplied the source to its end and is told to supply more.
Exhausted == pc = "idle" /\ ret = "Continue" /\ bufStart + bufLen >= Len(src)

(***************************************************************************)
(* The properties.                                                         *)
(***************************************************************************)
\* C1: on every well-formed archive, the streaming parser, fed a buffer that
\* begins at bytes_parsed and refilled on Continue, comes to Done with the
\* chunk list the one-shot PakFile::parse produces.  Stated so that a finite
\* run refutes it: the one-shot parse produces a chunk list, the streaming
\* parse never fails, it never asks for bytes beyond the end of the source
\* (a Continue that no refill can answer), and its Done carries the one-shot
\* chunk list.
C1_StreamingEqualsOneShot ==
    WellFormed(wire) =>
        /\ oneshot.res \in {"Pending", "Ok"}
        /\ ret \notin {"Err", "Panic"}
        /\ ~Exhausted
        /\ ret = "Done" => pak_file = oneshot.chunks

\* C2: whenever Done is returned for a stream whose Form chunk was decoded,
\* bytes_parsed equals the total length derived from that chunk.
C2_DoneAtTotalLength ==
    (ret = "Done" /\ parser.pak_len # None) => parser.bytes_parsed = parser.pak_len[1]

\* C3: in every parser state in which the total length is known and
\* bytes_parsed equals it, the state is Done.
C3_DoneOnceTotalReached ==
    (parser.pak_len # None /\ parser.bytes_parsed = parser.pak_len[1])
        => parser.state.kind = "Done"

\* C4: on Done, chunks() holds one Chunk for each chunk decoded from the
\* stream (Form, Head, every Data, File), in source order.
C4_EveryDecodedChunkKept ==
    (ret = "Done" /\ WellFormed(wire))
        => Kinds(pak_file) = KindsBefore(wire, 1, parser.bytes_parsed)

\* C5: every PakFile returned begins with Form, holds exactly one Form and at
\* most one File, and comes from a stream whose first chunk is FORM.
C5_FormFirstOneFile ==
    ret = "Done" =>
        /\ pak_file # <<>>
        /\ pak_file[1].kind = "Form"
        /\ CountKind(pak_file, "Form") = 1
        /\ CountKind(pak_file, "File") <= 1
        /\ wire.chunks[1].cc = "FORM"

\* C6: PakFile::parse returns Ok(PakFile) or Err(PakError) for every input
\* slice; it never panics.
C6_OneShotNeverPanics == oneshot.res \in {"Pending", "Ok", "Err"}

\* C7: whenever Done is returned for a stream in which a FILE chunk header
\* was decoded, the PakFile holds a File chunk whose tree holds every entry
\* of that chunk.
C7_NoPartialArchive ==
    (ret = "Done" /\ FileHeaderDecoded) =>
        \E i \in 1..Len(pak_file) :
            /\ pak_file[i].kind = "File"
            /\ EntryCount(pak_file[i].fs) = Len(wire.chunks[FirstFile(wire)].entries)

\* C8: a parse step that answers Continue leaves the parser (state variant,
\* frame stack, bytes_parsed, total length, chunk list) as it was before the
\* step and the cursor on the first byte of the incomplete record, which is
\* source offset bytes_parsed.
C8_ContinueChangesNothing ==
    [][(pc = "parse" /\ ret' = "Continue")
        => (/\ parser' = parser
            /\ cursor' = cursor
            /\ bufStart' + cursor' = parser'.bytes_parsed)]_vars

\* A Continue in the middle of an entry, with frames on the stack and part
\* of the entry in the buffer.
C8_Witness ==
    /\ pc = "idle"
    /\ ret = "Continue"
    /\ parser.state.kind = "ParsingFileChunk"
    /\ Len(parser.state.parents) >= 2
    /\ bufLen - cursor >= 2

\* C9: whenever Skip { from, count, parser } is returned, count > 0, from is
\* the source offset of the cursor, parser.bytes_parsed = from + count and
\* that offset is the four-CC of the next chunk (or the end); the Skip comes
\* from a HEAD chunk with count 0x18 or from a DATA chunk with count
\* data_len > 0.
C9_SkipLandsOnNextChunk ==
    (pc = "idle" /\ ret = "Skip") =>
        /\ skipCount > 0
        /\ skipFrom = bufStart + cursor
        /\ parser.bytes_parsed = skipFrom + skipCount
        /\ \E i \in 1..Len(wire.chunks) :
            /\ parser.bytes_parsed = ChunkStart(wire, i + 1)
            /\ \/ /\ wire.chunks[i].cc = "HEAD"
                  /\ skipFrom = ChunkStart(wire, i) + 12
                  /\ skipCount = 24
               \/ /\ wire.chunks[i].cc = "DATA"
                  /\ skipFrom = ChunkStart(wire, i) + 8
                  /\ skipCount = Len(wire.chunks[i].payload)

\* A Skip over the payload of a DATA chunk that follows a HEAD chunk.
C9_Witness ==
    /\ pc = "idle"
    /\ ret = "Skip"
    /\ skipCount = DataLen
    /\ skipFrom > 48

WitnessTree ==
    FileEntry(<<>>, FolderMeta(<<
        FileEntry(NameB, FolderMeta(<<FileEntry(NameA, FolderMeta(<<>>))>>)),
        FileLeaf(NameB)>>))

WireEntries == IF FirstFile(wire) = 0 THEN <<>> ELSE wire.chunks[FirstFile(wire)].entries

\* The positions of the File chunks of a chunk list.
FileChunks(chunks) == {i \in 1..Len(chunks) : chunks[i].kind = "File"}

\* The children_count an entry stream records, entry by entry.
ChildCounts(es) == [i \in 1..Len(es) |-> es[i].children_count]

\* The frames left open (children still to come, root first) once the
\* finished frames other than the root are closed.
RECURSIVE CloseFinished(_)
CloseFinished(open) ==
    IF Len(open) > 1 /\ Last(open) = 0 THEN CloseFinished(Front(open)) ELSE open

\* Some entry of es arrives at a folder that has no child left to come, or a
\* file arrives before any folder; open holds the children still to come of
\* the folders that are open.
RECURSIVE Surplus(_, _)
Surplus(es, open) ==
    IF es = <<>> THEN FALSE
    ELSE LET e == Head(es) IN
         IF open = <<>>
         THEN IF e.kind = 0 THEN Surplus(Tail(es), <<e.children_count>>) ELSE TRUE
         ELSE IF Last(open) = 0 THEN TRUE
         ELSE Surplus(Tail(es),
                  CloseFinished(IF e.kind = 0
                                THEN Append([open EXCEPT ![Len(open)] = @ - 1], e.children_count)
                                ELSE [open EXCEPT ![Len(open)] = @ - 1]))

\* The names of the children of every folder of t are pairwise distinct.
RECURSIVE DistinctNames(_)
DistinctNames(t) ==
    t.meta.kind = "Folder" =>
        /\ \A i, j \in 1..Len(t.meta.children) :
              i # j => FileEntry_name(t.meta.children[i]) # FileEntry_name(t.meta.children[j])
        /\ \A i \in 1..Len(t.meta.children) : DistinctNames(t.meta.children[i])

\* No entry below t has an empty name.
RECURSIVE NamedBelow(_)
NamedBelow(t) ==
    t.meta.kind = "Folder" =>
        \A i \in 1..Len(t.meta.children) :
            /\ FileEntry_name(t.meta.children[i]) # <<>>
            /\ NamedBelow(t.meta.children[i])

\* "Root"
RootName == <<82, 111, 111, 116>>

\* C11: in every archive returned, every folder, the root included, has as
\* many children as the children_count its entry records on the wire.
C11_ChildrenCountExact ==
    ret = "Done" =>
        \A i \in FileChunks(pak_file) :
            ChildCounts(PreOrder(pak_file[i].fs))
                = ChildCounts(SubSeq(WireEntries, 1, EntryCount(pak_file[i].fs)))

\* C12: an entry stream that supplies an entry to a folder with no child
\* left to come, or a file before any folder, never yields an archive,
\* neither from the streaming parser nor from PakFile::parse.
C12_SurplusNeverYieldsArchive ==
    Surplus(WireEntries, <<>>) => (ret # "Done" /\ oneshot.res # "Ok")

\* C13: in every archive returned, the names of the children of a folder
\* are pairwise distinct.
C13_ChildNamesDistinct ==
    ret = "Done" => \A i \in FileChunks(pak_file) : DistinctNames(pak_file[i].fs)

\* C14: in every archive returned, the root folder has the name "Root" and
\* no entry below the root has an empty name.
C14_RootNamedRoot ==
    ret = "Done" =>
        \A i \in FileChunks(pak_file) :
            /\ FileEntry_name(pak_file[i].fs) = RootName
            /\ NamedBelow(pak_file[i].fs)

(***************************************************************************)
(* The file system against the tree and the source.                        *)
(***************************************************************************)
\* The tree of the File chunk the file system was built over.
VfsRoot == pak_file[FileChunkAt(pak_file)].fs

\* The metas of the files of a tree.
RECURSIVE FileMetas(_)
FileMetas(t) ==
    IF t.meta.kind = "File" THEN {t.meta}
    ELSE UNION {FileMetas(t.meta.children[i]) : i \in 1..Len(t.meta.children)}

\* Every entry of a tree with the names on its path from the root.
RECURSIVE Located(_, _)
Located(t, names) ==
    {[names |-> names, entry |-> t]}
    \cup (IF t.meta.kind = "File" THEN {}
          ELSE UNION {Located(t.meta.children[i], Append(names, FileEntry_name(t.meta.children[i])))
                        : i \in 1..Len(t.meta.children)})

\* No name of an entry below t holds a '/'.
RECURSIVE NoSlashBelow(_)
NoSlashBelow(t) ==
    t.meta.kind = "Folder" =>
        \A i \in 1..Len(t.meta.children) :
            /\ \A k \in 1..Len(FileEntry_name(t.meta.children[i])) :
                   FileEntry_name(t.meta.children[i])[k] # 47
            /\ NoSlashBelow(t.meta.children[i])

\* The precondition of the index: names below the root are non-empty, hold
\* no '/' and are unique within each folder.
CleanNames(t) == NamedBelow(t) /\ NoSlashBelow(t) /\ DistinctNames(t)

\* The index holds one key per entry, '/' followed by the '/'-joined names
\* of its path, and each key maps to its entry.
IndexIsThePaths ==
    /\ DOMAIN entry_cache = {AbsPath(l.names) : l \in Located(VfsRoot, <<>>)}
    /\ \A l \in Located(VfsRoot, <<>>) : entry_cache[AbsPath(l.names)] = l.entry
    /\ Cardinality(DOMAIN entry_cache) = EntryCount(VfsRoot)

\* C15: for every File entry of an archive the parser returns,
\* offset + compressed_len is at most the length of the archive, so that
\* open_file never asks the source for a range outside it.
C15_FileRangesInsideArchive ==
    /\ ret = "Done" =>
        \A i \in FileChunks(pak_file) :
            \A m \in FileMetas(pak_file[i].fs) : m.offset + m.compressed_len <= Len(src)
    /\ reply.op = "open_file" => reply.out.res # "Panic"

\* C16 (as stated): on a tree with clean names the index holds exactly one
\* key per entry, the '/'-joined path, mapping to that entry, and exists(p)
\* is true exactly for those keys.
C16_ExistsExactlyKeys ==
    (pc = "vfs" /\ CleanNames(VfsRoot)) =>
        /\ IndexIsThePaths
        /\ reply.op = "exists" => (reply.out.val <=> reply.path \in DOMAIN entry_cache)

\* C16 (amended): as above, and exists(p) is true exactly for those keys and
\* for the empty path, which entry_at reads as "/".
C16_IndexOnePerEntry ==
    (pc = "vfs" /\ CleanNames(VfsRoot)) =>
        /\ IndexIsThePaths
        /\ reply.op = "exists" =>
             (reply.out.val <=> (reply.path \in DOMAIN entry_cache \/ reply.path = <<>>))

\* exists("") answers true over an index of a root, a folder and an entry in it.
C16_Witness ==
    /\ pc = "vfs"
    /\ CleanNames(VfsRoot)
    /\ reply.op = "exists"
    /\ reply.path = <<>>
    /\ reply.out.val
    /\ AbsPath(<<NameA, NameB>>) \in DOMAIN entry_cache

\* C17: for every entry with absolute path "/a/b" the lookups "/a/b" and
\* "a/b" return the same entry, and "" and "/" return the root folder.
C17_LeadingSlashOptional ==
    pc = "vfs" =>
        /\ \A k \in DOMAIN entry_cache \ {Slash} :
              entry_at(entry_cache, Tail(k)) = entry_at(entry_cache, k)
        /\ entry_at(entry_cache, <<>>) = [res |-> "Ok", val |-> VfsRoot]
        /\ entry_at(entry_cache, Slash) = [res |-> "Ok", val |-> VfsRoot]

\* The names of the children of an entry, in the order the decoder stored.
ChildNames(e) == [i \in 1..Len(e.meta.children) |-> FileEntry_name(e.meta.children[i])]

InSeq(x, seq) == \E i \in 1..Len(seq) : seq[i] = x

\* C18 (as stated): read_dir(p) on a folder returns the names of its direct
\* children in stored order, and a name n is returned exactly when
\* exists(p + "/" + n) is true.
C18_ReadDirMatchesExists ==
    (pc = "vfs" /\ reply.op = "read_dir" /\ reply.out.res = "Ok") =>
        /\ reply.out.val = ChildNames(entry_at(entry_cache, reply.path).val)
        /\ \A n \in Names :
              InSeq(n, reply.out.val) <=> exists(entry_cache, reply.path \o Slash \o n).val

\* C18 (amended): read_dir(p) on a folder returns the names of its direct
\* children in stored order; on a tree with clean names a non-empty name n
\* without '/' is returned exactly when exists(q + "/" + n) is true, q being
\* p, or the empty path when p is "/".
C18_ReadDirChildrenInOrder ==
    (pc = "vfs" /\ reply.op = "read_dir" /\ reply.out.res = "Ok") =>
        /\ reply.out.val = ChildNames(entry_at(entry_cache, reply.path).val)
        /\ CleanNames(VfsRoot) =>
             \A n \in Names :
                InSeq(n, reply.out.val)
                    <=> exists(entry_cache, (IF reply.path = Slash THEN <<>> ELSE reply.path) \o Slash \o n).val

\* read_dir("/") over a root that holds b and then a.
C18_Witness ==
    /\ pc = "vfs"
    /\ reply.op = "read_dir"
    /\ reply.path = Slash
    /\ reply.out.res = "Ok"
    /\ reply.out.val = <<NameB, NameA>>

RangeOf(m) == SubSeq(src, m.offset + 1, m.offset + m.compressed_len)

C20_StoredIsRawBytes ==
    (pc = "vfs" /\ entry_at(entry_cache, reply.path).res = "Ok"
        /\ entry_at(entry_cache, reply.path).val.meta.kind = "File") =>
        LET m == entry_at(entry_cache, reply.path).val.meta IN
        /\ (reply.op = "open_file" /\ m.compressed = 0 /\ m.offset + m.compressed_len <= Len(src))
             => (reply.out.res = "Ok" /\ reply.out.val = RangeOf(m))
        /\ reply.op = "metadata"
             => reply.out = Reply("Ok", [file_type |-> "File", len |-> m.decompressed_len], None)

\* open_file of a stored entry whose bytes are a zlib stream, whose
\* compression_level is 6 and whose decompressed_len is not compressed_len.
C20_Witness ==
    /\ pc = "vfs"
    /\ reply.op = "open_file"
    /\ entry_at(entry_cache, reply.path).res = "Ok"
    /\ entry_at(entry_cache, reply.path).val.meta = StoredStream
    /\ reply.out.val = deflate_stored(PackedContent)

(***************************************************************************)
(* The error values of the file system.                                    *)
(***************************************************************************)
\* The entries of the tree an absolute path names ("" names the root).
EntriesAt(path) ==
    {l.entry : l \in {k \in Located(VfsRoot, <<>>) :
                        AbsPath(k.names) = (IF path = <<>> THEN Slash ELSE path)}}

\* The entries a path names when its leading '/' may be left out.
EntriesNamed(path) == EntriesAt(path) \cup EntriesAt(Slash \o path)

\* C21: read_dir, metadata and open_file on a path that names no entry
\* answer NotFound; open_file on a path that names folders only and read_dir
\* on a path that names files only answer NotSupported; and an open_file
\* that answers NotFound or NotSupported has asked the source for no range.
C21_ErrorKinds ==
    pc = "vfs" =>
        /\ (reply.op \in {"read_dir", "metadata", "open_file"} /\ EntriesNamed(reply.path) = {})
              => reply.out.res = "NotFound"
        /\ (reply.op = "open_file" /\ EntriesAt(reply.path) # {}
                /\ \A e \in EntriesAt(reply.path) : e.meta.kind = "Folder")
              => reply.out.res = "NotSupported"
        /\ (reply.op = "read_dir" /\ EntriesAt(reply.path) # {}
                /\ \A e \in EntriesAt(reply.path) : e.meta.kind = "File")
              => reply.out.res = "NotSupported"
        /\ (reply.op = "open_file" /\ reply.out.res \in {"NotFound", "NotSupported"})
              => reply.out.primed = None

\* open_file("/a") answered NotSupported over a root that holds the folder a.
C21_Witness ==
    /\ pc = "vfs"
    /\ reply.op = "open_file"
    /\ reply.path = Slash \o NameA
    /\ EntriesAt(reply.path) # {}
    /\ \A e \in EntriesAt(reply.path) : e.meta.kind = "Folder"
    /\ reply.out.res = "NotSupported"
    /\ reply.out.primed = None

\* C22: every mutating operation of the file system answers NotSupported,
\* and the archive and the index stay as they were.
C22_MutatingNotSupported ==
    /\ reply.op \in MutatingOps => reply.out.res = "NotSupported"
    /\ pc = "vfs" => entry_cache = PakVfs_new(pak_file).entry_cache

\* C23: when the decoder fails in open_file of an entry whose compressed is
\* 1, open_file returns an error of kind Io that carries the offset of the
\* entry, and no bytes.
C23_IoErrorCarriesOffset ==
    (pc = "vfs" /\ reply.op = "open_file" /\ reply.out.primed # None
        /\ entry_at(entry_cache, reply.path).val.meta.compressed = 1
        /\ inflate(RangeOf(entry_at(entry_cache, reply.path).val.meta)).res = "Err") =>
        /\ reply.out.res = "IoError"
        /\ reply.out.val.kind = "IoError"
        /\ "offset" \in DOMAIN reply.out.val
        /\ reply.out.val.offset = entry_at(entry_cache, reply.path).val.meta.offset

(***************************************************************************)
(* Merging trees.                                                          *)
(***************************************************************************)
\* The names of a sequence of entries.
NamesIn(es) == {es[i].name : i \in 1..Len(es)}

\* The merge of two folders as the rule states it: the children of a in
\* their order, each folder with a same-name folder of b merged with it by
\* the same rule, then the children of b whose names a does not hold.
RECURSIVE MergedByRule(_, _)
MergedByRule(a, b) ==
    FileEntry(a.name, FolderMeta(
        [i \in 1..Len(a.meta.children) |->
            IF a.meta.children[i].meta.kind = "Folder"
               /\ \E j \in 1..Len(b.meta.children) :
                     /\ b.meta.children[j].name = a.meta.children[i].name
                     /\ b.meta.children[j].meta.kind = "Folder"
            THEN MergedByRule(a.meta.children[i],
                              b.meta.children[CHOOSE j \in 1..Len(b.meta.children) :
                                                 /\ b.meta.children[j].name = a.meta.children[i].name
                                                 /\ b.meta.children[j].meta.kind = "Folder"])
            ELSE a.meta.children[i]]
        \o SelectSeq(b.meta.children, LAMBDA e : e.name \notin NamesIn(a.meta.children))))

\* C24: when a merge of two folders completes, the result is the merge by
\* the rule: the children of self in their order, then the children of
\* other whose names self did not hold, same-name folders merged alike.
C24_MergeKeepsThenAppends ==
    (Len(calls) = 1 /\ calls[1].res = "Ok") =>
        TreeOf(heap, owner[calls[1].into])
            = MergedByRule(original[calls[1].into], original[calls[1].from])

\* The same over trees whose sibling names are distinct.
C24_OnDistinctNames ==
    (Len(calls) = 1 /\ calls[1].res = "Ok"
        /\ DistinctNames(original[calls[1].into]) /\ DistinctNames(original[calls[1].from])) =>
        TreeOf(heap, owner[calls[1].into])
            = MergedByRule(original[calls[1].into], original[calls[1].from])

\* At some folder path a name is on both sides and one of the two is a file.
RECURSIVE Collides(_, _)
Collides(a, b) ==
    \E i \in 1..Len(a.meta.children), j \in 1..Len(b.meta.children) :
        /\ a.meta.children[i].name = b.meta.children[j].name
        /\ \/ a.meta.children[i].meta.kind = "File"
           \/ b.meta.children[j].meta.kind = "File"
           \/ Collides(a.meta.children[i], b.meta.children[j])

\* C25: a merge over two trees that collide fails, and the failure is the
\* error value ParseFormat returned to the caller.
C25_CollisionIsParseFormat ==
    (Len(calls) = 1 /\ Collides(original[calls[1].into], original[calls[1].from])) =>
        calls[1].res = "ParseFormat"

\* A merge over two trees of distinct sibling names that collide does not
\* complete.
C25_CollisionFails ==
    (Len(calls) = 1 /\ Collides(original[calls[1].into], original[calls[1].from])
        /\ DistinctNames(original[calls[1].into]) /\ DistinctNames(original[calls[1].from])) =>
        calls[1].res # "Ok"

\* The names of the children of the three roots are pairwise disjoint.
DisjointRoots(t) ==
    /\ NamesIn(t.A.meta.children) \cap NamesIn(t.B.meta.children) = {}
    /\ NamesIn(t.A.meta.children) \cap NamesIn(t.C.meta.children) = {}
    /\ NamesIn(t.B.meta.children) \cap NamesIn(t.C.meta.children) = {}

\* B.merge(C) and then A.merge(B) over the trees of t as first allocated:
\* how it ends and the tree A holds then.
MergedIntoB(t) ==
    merge(Planted(t).heap, <<Planted(t).owner.A, Planted(t).owner.B>>,
          Planted(t).owner.B, Planted(t).owner.C)
ThenIntoA(t, bc) ==
    IF bc.res # "Ok" THEN bc
    ELSE merge(bc.heap, <<Planted(t).owner.A>>, Planted(t).owner.A, Planted(t).owner.B)
RightFirst(t, abc) ==
    [res |-> abc.res, tree |-> TreeOf(abc.heap, Planted(t).owner.A)]

\* A.merge(B) and then A.merge(C) have been called.
LeftFirst ==
    /\ Len(calls) = 2
    /\ calls[1] = [op |-> "merge", into |-> "A", from |-> "B", res |-> "Ok"]
    /\ calls[2].op = "merge" /\ calls[2].into = "A" /\ calls[2].from = "C"

\* C26: over three folders whose child names are pairwise disjoint,
\* merging B into A and then C into A ends as merging C into B and then B
\* into A does, and with an equal tree (names, nesting, child order).
C26_MergeAssociative ==
    (LeftFirst /\ DisjointRoots(original)) =>
        /\ calls[2].res = RightFirst(original, ThenIntoA(original, MergedIntoB(original))).res
        /\ calls[2].res = "Ok" =>
             TreeOf(heap, owner.A) = RightFirst(original, ThenIntoA(original, MergedIntoB(original))).tree

\* Both orders have completed over three roots that each hold an entry.
C26_Witness ==
    /\ LeftFirst
    /\ DisjointRoots(original)
    /\ calls[2].res = "Ok"
    /\ original.A.meta.children # <<>>
    /\ original.B.meta.children # <<>>
    /\ original.C.meta.children # <<>>
    /\ Len(TreeOf(heap, owner.A).meta.children) = 3

\* No two of the three trees collide, each has distinct sibling names, and
\* no source was merged twice.
NoCollision ==
    /\ \A h \in Handles : DistinctNames(original[h])
    /\ ~Collides(original.A, original.B)
    /\ ~Collides(original.A, original.C)
    /\ ~Collides(original.B, original.C)
    /\ \A i \in 1..Len(calls), j \in 1..Len(calls) : i # j => calls[i].from # calls[j].from

\* C27: every merge_ref of a sequence that merges sources into A without a
\* collision succeeds, also when A holds a folder it adopted from a source
\* still alive and a later source has a folder of that name.
C27_MergeRefSucceeds ==
    NoCollision => \A i \in 1..Len(calls) : calls[i].res = "Ok"

\* C28: after any sequence of merge_ref calls the tree of every source
\* that is still alive equals its tree before the calls, although A may
\* share subtrees with it.
C28_SourcesUnchanged ==
    \A h \in {"B", "C"} : owner[h] # 0 => TreeOf(heap, owner[h]) = original[h]

\* A merge_ref has succeeded, A shares an entry with the live B, and an
\* entry below A's root has been changed in place.
C28_Witness ==
    /\ calls # <<>>
    /\ calls[Len(calls)].res = "Ok"
    /\ owner.B # 0
    /\ Reach(heap, {owner.A}) \cap Reach(heap, {owner.B}) # {}
    /\ \E id \in 1..Len(heap) : id # owner.A /\ heap[id] # Planted(original).heap[id]

(***************************************************************************)
(* The cache of primed buffers.                                            *)
(***************************************************************************)
\* C29: in every state the capacities of the cached buffers sum to at most
\* MEM_LIMIT.
C29_CacheWithinLimit == mem_usage_of(buffer) <= MEM_LIMIT

\* An insertion that finds the cache holding exactly MEM_LIMIT leaves it
\* within MEM_LIMIT.
C29_AtTheLimit ==
    (mem_usage_of(evicted.before) = MEM_LIMIT /\ DOMAIN evicted.before \subseteq DOMAIN buffer)
        => mem_usage_of(buffer) <= MEM_LIMIT

\* The keys an insertion removed, and the sum of their capacities.
RemovedKeys(n) == {evicted.removed[i] : i \in 1..n}
RemovedSum(n) == sum_capacity(evicted.before, RemovedKeys(n))

HeldInsideSections ==
    \A t \in Tasks :
        /\ call[t].pc = "read_at" => mutex # Some(t)
        /\ mutex = Some(t) => call[t].pc \in {"lookup", "publish"}

\* A call that leaves read_at without publishing (the future was dropped,
\* or read_at failed) leaves the map as it was and does not hold the lock.
LeavingFetchKeepsCache ==
    \A t \in Tasks :
        (call[t].pc = "read_at" /\ call'[t].pc = "idle") =>
            /\ buffer' = buffer
            /\ filled' = filled
            /\ mutex' = mutex
            /\ mutex' # Some(t)

\* C31: no task holds the lock of the cache while its read_at is pending:
\* the lock is held only between the start of the lookup and its end and
\* between the return of read_at and the return of prime_file; a future
\* dropped at read_at leaves the map unchanged and the lock free of it.
C31_NoLockAcrossFetch == [](HeldInsideSections) /\ [][LeavingFetchKeepsCache]_vars

\* One call awaits read_at while the other holds the lock to publish.
C31_Witness ==
    \E t \in Tasks, u \in Tasks :
        /\ call[t].pc = "read_at"
        /\ call[u].pc = "publish"
        /\ mutex = Some(u)

\* A call whose read_at fails returns the error and leaves the cache as it
\* was: no entry made, replaced or evicted.
FailureKeepsCache ==
    \A t \in Tasks :
        (call[t].pc = "read_at" /\ call'[t].pc = "idle" /\ returned' # returned) =>
            /\ returned' = Some(Primed(call[t].file_range[1], "Err", None, TRUE))
            /\ buffer' = buffer
            /\ filled' = filled
            /\ evicted' = evicted

\* An entry enters the cache only from a call whose read_at has returned.
EntriesOnlyFromReads ==
    \A r \in DOMAIN buffer' \ DOMAIN buffer :
        \E t \in Tasks : call[t].pc = "publish" /\ call[t].file_range = Some(r)

\* C32: when read_at fails, prime_file returns the error and the cache is
\* unchanged; entries come only from reads that succeeded, so a later call
\* for the range reads again.
C32_FailedFetchNotCached == [][FailureKeepsCache /\ EntriesOnlyFromReads]_vars

\* A read of a range has failed, the cache holds other entries and not that
\* range, and a call for the same range is reading again.
C32_Witness ==
    /\ returned # None
    /\ returned[1].res = "Err"
    /\ buffer # HashMap_new
    /\ returned[1].file_range \notin DOMAIN buffer
    /\ \E t \in Tasks : call[t].pc = "read_at" /\ call[t].file_range = Some(returned[1].file_range)

\* Every cached buffer is full and holds the bytes of the range it is keyed
\* by, and so does what the last successful call returned.
HoldsSourceBytes ==
    /\ DOMAIN filled = DOMAIN buffer
    /\ \A k \in DOMAIN filled :
          /\ filled[k] = [from |-> k[1], len |-> k[2] - k[1]]
          /\ filled[k].len = buffer[k]
    /\ (returned # None /\ returned[1].res = "Ok") =>
          returned[1].data = [from |-> returned[1].file_range[1],
                              len |-> returned[1].file_range[2] - returned[1].file_range[1]]

\* A call that returns from the lookup found its own range as a key and
\* has not read.
HitIsExact ==
    \A t \in Tasks :
        (call[t].pc = "lookup" /\ call'[t].pc = "idle") =>
            /\ call[t].file_range[1] \in DOMAIN buffer
            /\ returned' = Some(Primed(call[t].file_range[1], "Ok", filled[call[t].file_range[1]], FALSE))
            /\ reading' = reading

\* C33: whatever the interleaving, a successful prime_file(r) returns the
\* bytes the source holds for r; a hit is served from the entry keyed by r
\* itself, without a read; and no cached buffer is less than full.
C33_ReturnsSourceBytes == [](HoldsSourceBytes) /\ [][HitIsExact]_vars

\* A hit on the range that spans two files, while the first file, which
\* starts at the same offset, is cached too and an eviction has happened.
C33_Witness ==
    /\ returned # None
    /\ returned[1] = Primed(<<FileStart(1), FileStart(3)>>, "Ok", read_at(<<FileStart(1), FileStart(3)>>), FALSE)
    /\ <<FileStart(1), FileStart(2)>> \in DOMAIN buffer
    /\ evicted.removed # <<>>
    /\ \E t \in Tasks : call[t].pc = "read_at"

\* C38: right after an insertion the cached buffers other than the new one
\* sum to at most MEM_LIMIT, so the cache holds at most MEM_LIMIT plus the
\* capacity of the buffer inserted last.
C38_OthersWithinLimit ==
    [][\A t \in Tasks :
          (call[t].pc = "publish" /\ call'[t].pc = "idle") =>
              /\ call[t].file_range[1] \in DOMAIN buffer'
              /\ mem_usage_of(HashMap_remove(buffer', call[t].file_range[1])) <= MEM_LIMIT
              /\ mem_usage_of(buffer') <= MEM_LIMIT + file_size(call[t].file_range[1])]_vars

\* An insertion has evicted and has left the cache above MEM_LIMIT.
C38_Witness ==
    /\ returned # None
    /\ returned[1].res = "Ok"
    /\ returned[1].fetched
    /\ returned[1].file_range \in DOMAIN buffer
    /\ evicted.removed # <<>>
    /\ DOMAIN buffer = (DOMAIN evicted.before \ RemovedKeys(Len(evicted.removed))) \cup {returned[1].file_range}
    /\ mem_usage_of(buffer) > MEM_LIMIT

(***************************************************************************)
(* The ranges of the HEAD and DATA chunks, the directory, and progress.    *)
(***************************************************************************)
\* The range a decoded Head or Data chunk records.
RecordedRange(chunk) == IF chunk.kind = "Head" THEN chunk.unknown_data ELSE chunk.data

\* The chunk parse_chunk decodes in the step about to be taken.
DecodedNow == parse_chunk(Buf, cursor).val.chunk[1]

\* C34: when a HEAD or DATA chunk is decoded and a Skip answered, the range
\* recorded in the chunk is as long as the Skip count and starts at the
\* source offset of the first skipped byte.
C34_RangeIsSkippedBytes ==
    [][(pc = "parse" /\ ret' = "Skip") =>
          /\ RecordedRange(DecodedNow)[2] - RecordedRange(DecodedNow)[1] = skipCount'
          /\ RecordedRange(DecodedNow)[1] = skipFrom']_vars

\* What the chunks record: offsets counted from the byte after the four-CC,
\* four bytes for HEAD and data_len bytes for DATA.
C34_RangesFromChunkStart ==
    [][(pc = "parse" /\ ret' = "Skip") =>
          \/ /\ DecodedNow.kind = "Head"
             /\ RecordedRange(DecodedNow) = <<8, 12>>
             /\ skipCount' = 24
          \/ /\ DecodedNow.kind = "Data"
             /\ RecordedRange(DecodedNow) = <<4, 4 + skipCount'>>]_vars

\* C35: while the directory is decoded, bytes_processed is at most
\* chunk_len: an entry that ends beyond the end of the FILE chunk, the first
\* entry of a chunk of length 0 included, is not taken.
C35_DirectoryWithinChunk ==
    parser.state.kind = "ParsingFileChunk" =>
        parser.state.bytes_processed <= parser.state.chunk_len

\* C39: bytes_parsed never decreases; a parse_impl that answers Loop or
\* Skip leaves it larger and one that answers Continue leaves it as it was;
\* PakFile::parse over the whole source has returned or failed once called.
C39_BytesParsedGrows ==
    /\ [](pc # "init" => oneshot.res \in {"Ok", "Panic"})
    /\ [][/\ parser'.bytes_parsed >= parser.bytes_parsed
          /\ (pc = "parse" /\ parser.state.kind # "Done" /\ ret' \in {"Loop", "Skip"})
                => parser'.bytes_parsed > parser.bytes_parsed
          /\ (pc = "parse" /\ ret' = "Continue")
                => parser'.bytes_parsed = parser.bytes_parsed]_vars

\* A Loop inside the directory, after a Skip and a refill.
C39_Witness ==
    /\ pc = "parse"
    /\ ret = "Loop"
    /\ skipCount > 0
    /\ parser.state.kind = "ParsingFileChunk"
    /\ parser.state.bytes_processed > 0
    /\ bufStart > 0

\* C40: every turn of the fetch-and-parse loop of parse_pak_file that does
\* not return leaves bytes_parsed beyond the offset its window was fetched
\* from, so the same window is never fetched again for the same parser.
C40_EveryFetchAdvances ==
    (feed = "window" /\ pc = "idle" /\ ret \in {"Continue", "Skip"})
        => parser.bytes_parsed > bufStart

\* On a source that holds the whole archive every turn advances.
C40_AdvancesOnWholeArchives ==
    (WellFormed(wire) /\ ~Exhausted /\ feed = "window" /\ pc = "idle" /\ ret \in {"Continue", "Skip"})
        => parser.bytes_parsed > bufStart

(***************************************************************************)
(* The searches of the UI.                                                 *)
(***************************************************************************)
\* Every search but the newest has its stop flag set, and has sent at most
\* one result since a newer search was started.
OnlyNewestRuns ==
    \A i \in 1..Len(searches) - 1 :
        /\ searches[i].stop
        /\ searches[i].late <= 1

\* C36: whenever a search has been started, the stop flag of every search
\* started before it is set, and a search that has been superseded sends at
\* most one more result; on the background thread and frame by frame.
C36_OnlyNewestSearchRuns == OnlyNewestRuns

\* On the background thread, where one call handles every task, it is so.
C36_OnTheBackgroundThread == target = "native" => OnlyNewestRuns

(***************************************************************************)
(* The file tree of the UI: build_file_tree (crates/ui/src/task.rs) turns  *)
(* the directory tree into a list of nodes, and show_file_tree             *)
(* (crates/ui/src/ui/tree.rs) replays the list into the tree view.  A path *)
(* is the string VfsPath::as_str answers: "" for the root, "/a/b" below.   *)
(***************************************************************************)
\* Everything but the file tree.
notTreeVars == <<wire, src, feed, oneshot, parser, pc, ret, bufStart, bufLen, cursor, skipFrom, skipCount, pak_file, entry_cache, reply, mergeVars, cacheVars, lockVars, searchVars>>

\* str::starts_with
starts_with(s, prefix) == Len(prefix) <= Len(s) /\ SubSeq(s, 1, Len(prefix)) = prefix

\* VfsPath::parent: the path without its last name; the root is its own.
RECURSIVE VfsPath_parent(_)
VfsPath_parent(path) ==
    IF path = <<>> THEN <<>>
    ELSE IF Last(path) = Slash[1] THEN Front(path)
    ELSE VfsPath_parent(Front(path))

\* ascii_icontains: some window of haystack equals needle once bit 0x20 is
\* cleared on both sides.
Unbit(c) == IF (c \div 32) % 2 = 1 THEN c - 32 ELSE c
ascii_icontains(needle, haystack) ==
    IF needle = <<>> THEN TRUE
    ELSE IF haystack = <<>> THEN FALSE
    ELSE \E at \in 0..(Len(haystack) - Len(needle)) :
            \A i \in 1..Len(needle) : Unbit(haystack[at + i]) = Unbit(needle[i])

\* A path of the file system with the entry it leads to.
At(path, entry) == [path |-> path, entry |-> entry]

\* read_dir of a directory, in the order the entries are stored.
VfsPath_read_dir(dir) ==
    [i \in 1..Len(dir.entry.meta.children) |->
        At(dir.path \o Slash \o dir.entry.meta.children[i].name, dir.entry.meta.children[i])]

\* known_files: every path below the root.
RECURSIVE known_below(_)
known_below(dir) ==
    UNION {{VfsPath_read_dir(dir)[i]} \cup
           (IF VfsPath_read_dir(dir)[i].entry.meta.kind = "Folder"
            THEN known_below(VfsPath_read_dir(dir)[i]) ELSE {})
           : i \in 1..Len(VfsPath_read_dir(dir))}

\* filtered_files: the known paths whose name, or whose full path when the
\* query holds a '/', contains the query.
filtered_files(known_files, query) ==
    {k.path : k \in {f \in known_files :
        ascii_icontains(query, IF \E i \in 1..Len(query) : query[i] = Slash[1]
                               THEN f.path ELSE f.entry.name)}}

\* is_included_in_filter
is_included_in_filter(child, filtered) ==
    IF filtered = None THEN TRUE
    ELSE \E node \in filtered[1] :
            IF child.entry.meta.kind = "File" THEN child.path = node
            ELSE starts_with(VfsPath_parent(node), child.path)

\* Bytewise order of two names.
RECURSIVE name_less(_, _)
name_less(a, b) ==
    IF b = <<>> THEN FALSE
    ELSE IF a = <<>> THEN TRUE
    ELSE IF Head(a) # Head(b) THEN Head(a) < Head(b)
    ELSE name_less(Tail(a), Tail(b))

\* sorted_by(|a, b| a.filename_ref().cmp(b.filename_ref()))
RECURSIVE sorted_by(_)
sorted_by(children) ==
    IF children = <<>> THEN <<>>
    ELSE LET first == CHOOSE i \in 1..Len(children) :
                        \A j \in 1..Len(children) :
                            j # i => name_less(children[i].entry.name, children[j].entry.name)
         IN <<children[first]>> \o
            sorted_by(SubSeq(children, 1, first - 1) \o SubSeq(children, first + 1, Len(children)))

\* file_tree.last_mut().unwrap().close_count = 1
close_itself(close_count) == 1

\* The children pushed on the queue, last child first: the first pushed
\* carries propagated_close, the others 0.
RECURSIVE pushed(_, _)
pushed(children, propagated_close) ==
    IF children = <<>> THEN <<>>
    ELSE <<[close_count |-> propagated_close, child |-> Last(children)]>>
         \o pushed(Front(children), 0)

TreeNode(id, is_dir, close_count, vfs_path) ==
    [id |-> id, is_dir |-> is_dir, close_count |-> close_count, vfs_path |-> vfs_path]

\* The loop of build_file_tree: pop, and when the path is included push a
\* node and, for a directory, its included children.
RECURSIVE build_loop(_, _, _, _)
build_loop(queue, nodes, node_id, filtered) ==
    IF queue = <<>> THEN nodes
    ELSE IF ~is_included_in_filter(Last(queue).child, filtered)
    THEN build_loop(Front(queue), nodes, node_id + 1, filtered)
    ELSE IF Last(queue).child.entry.meta.kind = "File"
    THEN build_loop(Front(queue),
                    Append(nodes, TreeNode(node_id, FALSE, Last(queue).close_count, Last(queue).child.path)),
                    node_id + 1, filtered)
    ELSE LET included == SelectSeq(sorted_by(VfsPath_read_dir(Last(queue).child)),
                                   LAMBDA c : is_included_in_filter(c, filtered))
         IN build_loop(Front(queue) \o pushed(included, Last(queue).close_count + 1),
                       Append(nodes, TreeNode(node_id, TRUE,
                                  IF included = <<>> THEN close_itself(Last(queue).close_count) ELSE 0,
                                  Last(queue).child.path)),
                       node_id + 1, filtered)

build_file_tree(root, query) ==
    build_loop(<<[close_count |-> 0, child |-> At(<<>>, root)]>>, <<>>, 0,
               IF query = None THEN None
               ELSE Some(filtered_files(known_below(At(<<>>, root)), query[1])))

\* The trees shown: up to MaxShown entries below the root, no two children
\* of a folder with one name.
ShownTrees == {t \in UNION {MergeRoots(Names, k) : k \in 0..MaxShown} : DistinctNames(t)}

\* The filters: none, "A", "b" and "/a".
Filters == {None, Some(<<65>>), Some(NameB), Some(Slash \o NameA)}

\* The tree view before the first node.
NewBuilder == [taken |-> 0, open |-> 0, ok |-> TRUE]

InitFileTree ==
    /\ InitParse({VfsWire(SampleTree)}, {"window"})
    /\ NoTrees
    /\ NoBuffers
    /\ NoSearches
    /\ overlay_fs \in ShownTrees
    /\ filter \in Filters
    /\ file_tree = None
    /\ builder = NewBuilder

\* The tree is built: load_pak_files (no filter) or the FilterPaths task.
BuildFileTree ==
    /\ file_tree = None
    /\ file_tree' = Some(build_file_tree(overlay_fs, filter))
    /\ UNCHANGED <<notTreeVars, overlay_fs, filter, builder>>

\* show_file_tree replays one node: a directory is opened or a leaf added,
\* then close_dir is called close_count times.
ShowNode ==
    /\ file_tree # None
    /\ builder.taken < Len(file_tree[1])
    /\ LET node == file_tree[1][builder.taken + 1]
           opened == builder.open + (IF node.is_dir THEN 1 ELSE 0)
       IN builder' = [taken |-> builder.taken + 1,
                      open |-> Max(0, opened - node.close_count),
                      ok |-> builder.ok /\ node.close_count <= opened]
    /\ UNCHANGED <<notTreeVars, overlay_fs, filter, file_tree>>

NextFileTree == BuildFileTree \/ ShowNode

SpecFileTree == InitFileTree /\ [][NextFileTree]_vars

\* The number of directories above a path: the '/' it holds.
RECURSIVE Depth(_)
Depth(path) ==
    IF path = <<>> THEN 0
    ELSE Depth(Tail(path)) + (IF Head(path) = Slash[1] THEN 1 ELSE 0)

\* While the nodes are replayed no close_dir comes without an open
\* directory, the directories open before a node is taken are the ones
\* above it, and none is open after the last node.
ReplayBalanced ==
    file_tree # None =>
        /\ builder.ok
        /\ builder.taken < Len(file_tree[1]) =>
              builder.open = Depth(file_tree[1][builder.taken + 1].vfs_path)
        /\ builder.taken = Len(file_tree[1]) => builder.open = 0

\* C37: for every tree and filter the node list of build_file_tree replays
\* balanced: as many closes as directories, never more closes than open
\* directories, each directory closed right after its last descendant.
C37_FileTreeBalanced == ReplayBalanced

\* The list never closes more directories than are open.
C37_NeverClosesTooMany == file_tree # None => builder.ok

=============================================================================
